---- MODULE Spec2Model ----
(***************************************************************************)
(* Model of the LINE / sensor / OpenAI relay of src/unnamed/part_001:      *)
(* the promise chain of safeAskOpenAI (rate limiter and retry loop), the   *)
(* response cache of answerWithSensorAI, and the event processing of       *)
(* processMessageEvent against the PendingReply table.                     *)
(*                                                                         *)
(* One action is one resumption of an async function: the awaited          *)
(* operation completes (its effect on the store or the transport happens), *)
(* the synchronous code after it runs, and the next operation is issued.   *)
(* Times are milliseconds (Date.now()). Sensor values are in tenths, so    *)
(* that Math.round is a real rounding.                                     *)
(***************************************************************************)
EXTENDS Integers, Sequences, FiniteSets, TLC

VARIABLES
  now,                 \* Date.now()
  OPENAI_RPM,          \* process.env.OPENAI_RPM (a number >= 0 here)
  OPENAI_MAX_RETRIES,  \* process.env.OPENAI_MAX_RETRIES
  OPENAI_API_KEY,      \* TRUE when process.env.OPENAI_API_KEY is set
  chain,               \* the promise chain: the calls of safeAskOpenAI, in submission order
  lastCall,            \* let lastCall
  aiCache,             \* const aiCache = new Map(): a set of entries [k, t, val]
  lastSensorData,      \* let lastSensorData
  users,               \* table User: the userIds
  pending,             \* table PendingReply: rows [id, replyToken]
  nextId,              \* the SERIAL of PendingReply.id
  tasks,               \* the async functions in flight (events, /ask-ai requests, auto-reports)
  faults,              \* collaborator failures injected so far (store, LINE transport)
  nextReport           \* when the setInterval of the auto-report fires next (-1: not enabled)

vars == <<now, OPENAI_RPM, OPENAI_MAX_RETRIES, OPENAI_API_KEY, chain, lastCall, aiCache,
          lastSensorData, users, pending, nextId, tasks, faults, nextReport>>

------------------------------------------------------------------------------
(* Bounds of the model *)

\* Date.now() when the process starts (any time well after the epoch).
StartMs == 1000000
\* The clock stops here.
MaxNow == 1310000
\* How far the clock moves when no timer is due.
TickMs == 150000
\* /ask-ai requests over a run of the limiter.
MaxLimiterTasks == 2
\* Async functions over a run of the whole program.
MaxSystemTasks == 2
\* /ask-ai requests over a run of the cache.
MaxCacheTasks == 3
\* Deliveries over a run of the event processing.
MaxEventTasks == 2
\* Deliveries over a run of the event processing without collaborator failures.
MaxTextTasks == 2
\* Deliveries and batches over a run of the clearing of the rows.
MaxClearTasks == 2
\* Deliveries and /ask-ai requests over a run with changing readings.
MaxSnapshotTasks == 2
\* /ask-ai requests over a run in which every step that can be taken is taken.
MaxLiveTasks == 3
\* Deliveries over a run of the messages.
MaxMessageTasks == 1
\* The largest OPENAI_MAX_RETRIES of the runs of the retry loop.
MaxRetries == 3
\* OPENAI_MAX_RETRIES in the runs of the backoff: 2 ** 5 * 1000 is the first delay
\* above the cap.
MaxBackoffRetries == 5
\* Requests (webhook batches, sensor posts) over a run of the server of index.ts.
MaxTsRequests == 2
\* Requests to /sensor-data and /latest over a run of the sensor ingest.
MaxIngests == 3
\* Injected failures of the store and of the LINE transport over a run.
MaxFaults == 1

------------------------------------------------------------------------------
(* Arithmetic *)

Max(a, b) == IF a >= b THEN a ELSE b
Min(a, b) == IF a <= b THEN a ELSE b
\* Math.ceil(a / b) for a >= 0, b > 0
Ceil(a, b) == (a + b - 1) \div b
\* 2 ** n
RECURSIVE Pow2(_)
Pow2(n) == IF n = 0 THEN 1 ELSE 2 * Pow2(n - 1)
\* Math.round of a value given in tenths: floor(x + 0.5)
Round(v) == (v + 5) \div 10

------------------------------------------------------------------------------
(* Inputs *)

\* A text is a sequence of symbols: "Q1", "Q2" stand for the whole text of a preset
\* question, "x" for any other word, " " for white space.

\* Sensor readings, in tenths: 20000.0 lux, 32.0 C, 55.0 %; one that rounds to the
\* same integers; one that does not.
NoReading == [light |-> -1, temp |-> -1, humidity |-> -1]
R1 == [light |-> 200000, temp |-> 320, humidity |-> 550]
R1b == [light |-> 200004, temp |-> 324, humidity |-> 546]
R2 == [light |-> 200000, temp |-> 325, humidity |-> 550]
\* A reading that differs from R1 in every field: 500.0 lux, 25.0 C, 80.0 %.
R3 == [light |-> 5000, temp |-> 250, humidity |-> 800]
\* The message events the webhook receives: the token, the sender, the text (empty for
\* a message that is no text message).
Deliveries ==
  { [token |-> "T1", userId |-> "U1", text |-> <<" ", "Q1">>],
    [token |-> "T1", userId |-> "U1", text |-> <<"Q1", " ", " ", "x">>],
    [token |-> "T2", userId |-> "U1", text |-> <<"Q1">>] }
\* The kinds of message: a recognized question (with white space around it), a text
\* that is no recognized question, a message that is no text message.
TextDeliveries ==
  { [token |-> "T1", userId |-> "U1", text |-> <<" ", "Q1">>],
    [token |-> "T2", userId |-> "U1", text |-> <<"Q2", " ">>],
    [token |-> "T1", userId |-> "U1", text |-> <<"Q1", " ", " ", "x">>],
    [token |-> "T2", userId |-> "U1", text |-> <<>>] }
\* A token delivered with a recognized question and with another text, any number of
\* times.
ClearDeliveries ==
  { [token |-> "T1", userId |-> "U1", text |-> <<"Q1">>],
    [token |-> "T1", userId |-> "U1", text |-> <<"x">>] }
SystemDeliveries ==
  { [token |-> "T1", userId |-> "U1", text |-> <<" ", "Q1">>],
    [token |-> "T2", userId |-> "U2", text |-> <<>>] }
\* The /ask-ai requests: the question and the reading of the body, if any.
LimiterRequests ==
  { [question |-> <<"Q1">>, body |-> R1],
    [question |-> <<"Q1">>, body |-> R1b],
    [question |-> <<"x">>, body |-> R2] }
\* The /ask-ai requests in the runs of the cache: a question and a reading, the same
\* question with white space after it and a reading that rounds to the same integers,
\* the question with a reading that does not.
CacheRequests ==
  { [question |-> <<"Q1">>, body |-> R1],
    [question |-> <<"Q1", " ">>, body |-> R1b],
    [question |-> <<"Q1">>, body |-> R2] }
SystemRequests ==
  { [question |-> <<"Q1">>, body |-> NoReading],
    [question |-> <<"x">>, body |-> R2] }
\* The values of OPENAI_RPM in the runs of the limiter: the default, and 7.
RpmValues == {2, 7}
\* The question of the auto-report.
ReportQuestion == <<"R">>
\* The value of a field of the body of POST /sensor-data: a number (in tenths, not
\* negative), or one of the values below.
Missing == -2    \* undefined: the body has no such field
NaN == -3        \* the number NaN
Word == -4       \* a string that is no number, such as "abc"
Null == -5       \* null
\* The string that spells the number n, such as "32"
TextOf(n) == 0 - (n + 10)
IsNumber(v) == v >= 0
IsText(v) == v <= -10
\* The bodies posted to /sensor-data: complete and numeric, a field or all fields
\* missing, a field that is a numeric string, a word, null.
SensorBodies ==
  { R1, R2,
    [R1 EXCEPT !.temp = Missing],
    [light |-> Missing, temp |-> Missing, humidity |-> Missing],
    [R1 EXCEPT !.temp = TextOf(320)],
    [R1 EXCEPT !.humidity = Word],
    [R1 EXCEPT !.light = Null] }
\* The batches the webhook of index.ts receives: events with their message type.
TsBatches ==
  { << [token |-> "T1", userId |-> "U1", type |-> "text", text |-> <<"Q1">>] >>,
    << [token |-> "T1", userId |-> "U1", type |-> "text", text |-> <<"Q1">>],
       [token |-> "T2", userId |-> "U1", type |-> "image", text |-> <<>>] >> }
\* What the model generates: texts, the empty text among them.
ModelTexts == {"A1", "A2", ""}
\* What the model generates in the runs of the messages: a short text, the empty
\* text, a text with a think block before it, a text of 1200 characters.
MessageTexts == {"A1", "", "<think>x</think>A1", "LONG"}
\* askOpenAI's local notices.
NoKeyNotice == "NOKEY"
NoTextNotice == "NOTEXT"
NoText == "null"
\* Header values of an error of the completion service: a number and its unit suffix
\* ("date" is a value that is no number).
NoHeader == [n |-> -1, unit |-> "none"]
NoError == [status |-> 0, retryAfterMs |-> NoHeader, retryAfter |-> NoHeader]
\* The errors of the completion service in the runs of the retry loop: a server error,
\* a throttling error without a hint, one with retry-after: 5.
RetryErrors ==
  { [status |-> 500, retryAfterMs |-> NoHeader, retryAfter |-> NoHeader],
    [status |-> 429, retryAfterMs |-> NoHeader, retryAfter |-> NoHeader],
    [status |-> 429, retryAfterMs |-> NoHeader, retryAfter |-> [n |-> 5, unit |-> ""]] }
\* The throttling errors in the runs of the backoff: without a hint, with
\* retry-after: 5, with retry-after-ms: 7, with retry-after-ms: 7ms.
BackoffErrors ==
  { [status |-> 429, retryAfterMs |-> NoHeader, retryAfter |-> NoHeader],
    [status |-> 429, retryAfterMs |-> NoHeader, retryAfter |-> [n |-> 5, unit |-> ""]],
    [status |-> 429, retryAfterMs |-> [n |-> 7, unit |-> ""], retryAfter |-> NoHeader],
    [status |-> 429, retryAfterMs |-> [n |-> 7, unit |-> "ms"], retryAfter |-> NoHeader] }
\* A server error and a throttling error without a hint.
ServerError == [status |-> 500, retryAfterMs |-> NoHeader, retryAfter |-> NoHeader]
Throttled == [status |-> 429, retryAfterMs |-> NoHeader, retryAfter |-> NoHeader]
EventErrors == {ServerError, Throttled}
\* Math.floor(Math.random() * 800): the two ends of 0..799.
JitterValues == {0, 799}

------------------------------------------------------------------------------
(* Rate limiter and retry loop: safeAskOpenAI *)

minGapMs == Ceil(60000, Max(1, OPENAI_RPM))

\* parseRetryAfterMs(err); -1 stands for null
ParseRetryAfterMs(err) ==
  LET raw == IF err.retryAfterMs # NoHeader THEN err.retryAfterMs ELSE err.retryAfter
  IN  IF raw = NoHeader THEN -1
      ELSE IF raw.unit = "ms" THEN (IF raw.n = 0 THEN -1 ELSE raw.n)
      ELSE IF raw.unit = "date" THEN -1
      ELSE raw.n * 1000

\* A backoff without the cap
BackoffUncapped(err, attempt, jitter) ==
  LET hint == ParseRetryAfterMs(err)
  IN  IF hint # -1 THEN hint ELSE Pow2(attempt) * 1000 + jitter

\* The backoff before the retry numbered attempt.
Backoff(err, attempt, jitter) ==
  LET hint == ParseRetryAfterMs(err)
  IN  IF hint # -1 THEN hint ELSE Min(30000, Pow2(attempt) * 1000 + jitter)

\* A limiter that waits for lastCall only, without the gap.
SpacingWaitNoGap(t) == Max(0, lastCall - t)
\* const wait = Math.max(0, lastCall + minGapMs - now)
SpacingWait(t) == Max(0, lastCall + minGapMs - t)

\* A chain whose next function runs as soon as the call before it backs off.
ChainReadyDuringBackoff(k) ==
  IF k = 1 THEN TRUE ELSE chain[k - 1].st \in {"resolved", "backoff"}
\* No chain: every call runs as soon as it is submitted.
ChainReadyEager(k) == TRUE
\* chain.then(fn): fn runs once the promise before it in the chain is fulfilled.
ChainReady(k) == IF k = 1 THEN TRUE ELSE chain[k - 1].st = "resolved"
\* A chain that does not pass a rejection on.
ChainBrokenNever(k) == FALSE
\* chain.then(fn) of a rejected promise: fn is not run, the rejection is passed on.
ChainBroken(k) == IF k = 1 THEN FALSE ELSE chain[k - 1].st = "rejected"

\* A retry loop that retries every error until the retries are used up.
GivesUpWhenExhausted(err, attempt) == attempt >= OPENAI_MAX_RETRIES
\* A retry loop that allows one retry more.
GivesUpLate(err, attempt) == err.status # 429 \/ attempt > OPENAI_MAX_RETRIES
\* A retry loop that counts the first attempt as a retry.
GivesUpEarly(err, attempt) == err.status # 429 \/ attempt + 1 >= OPENAI_MAX_RETRIES
\* if (err?.status !== 429 || attempt >= OPENAI_MAX_RETRIES) throw err
GivesUp(err, attempt) == err.status # 429 \/ attempt >= OPENAI_MAX_RETRIES

NewCall(owner, prompt) ==
  [st |-> "queued", owner |-> owner, prompt |-> prompt, attempt |-> 0, wakeAt |-> -1,
   out |-> NoText, err |-> NoError,
   \* history of the call, for the properties
   startAt |-> -1,       \* when askOpenAI was first invoked
   asks |-> 0,           \* invocations of askOpenAI
   throttled |-> 0]      \* invocations that threw a status 429 error

Running == {"spacing", "responses", "chat", "backoff"}
Settled == {"resolved", "rejected"}

\* The call invokes askOpenAI(prompt). Without an API key askOpenAI returns its
\* notice at once; otherwise the request to the responses API is in flight.
Ask(k) ==
  LET c == chain[k]
      d == [c EXCEPT !.asks = c.asks + 1,
                     !.startAt = IF c.startAt = -1 THEN now ELSE c.startAt,
                     !.wakeAt = -1]
  IN  IF OPENAI_API_KEY
      THEN /\ chain' = [chain EXCEPT ![k] = [d EXCEPT !.st = "responses"]]
           /\ UNCHANGED lastCall
      ELSE /\ chain' = [chain EXCEPT ![k] = [d EXCEPT !.st = "resolved", !.out = NoKeyNotice]]
           /\ lastCall' = now

\* askOpenAI returned out: lastCall = Date.now(); return out
Succeed(k, out) ==
  /\ chain' = [chain EXCEPT ![k] = [@ EXCEPT !.st = "resolved", !.out = out]]
  /\ lastCall' = now

\* askOpenAI threw err: rethrow, or count the attempt and back off
Fail(k, err, jitter) ==
  LET c == chain[k]
  IN  /\ UNCHANGED lastCall
      /\ IF GivesUp(err, c.attempt)
         THEN chain' = [chain EXCEPT ![k] =
                [c EXCEPT !.st = "rejected", !.err = err,
                          !.throttled = c.throttled + (IF err.status = 429 THEN 1 ELSE 0)]]
         ELSE chain' = [chain EXCEPT ![k] =
                [c EXCEPT !.st = "backoff", !.attempt = c.attempt + 1, !.err = err,
                          !.throttled = c.throttled + 1,
                          !.wakeAt = now + Backoff(err, c.attempt + 1, jitter)]]

\* Promise reactions (the function chained by safeAskOpenAI once the promise before
\* it settles, the continuation of await safeAskOpenAI(...)) are microtasks: they run
\* before the event loop takes the next timer, I/O completion or request.
MicrotaskPending ==
  \/ \E k \in 1..Len(chain) :
        chain[k].st = "queued" /\ (ChainReady(k) \/ ChainBroken(k))
  \/ \E i \in 1..Len(tasks) :
        tasks[i].pc = "awaitAI" /\ chain[tasks[i].call].st \in {"resolved", "rejected"}
\* The event loop takes a timer, an I/O completion or a request.
Macrotask == ~MicrotaskPending

\* Everything but the limiter's own state.
others == <<now, OPENAI_RPM, OPENAI_MAX_RETRIES, OPENAI_API_KEY, aiCache, lastSensorData,
            users, pending, nextId, tasks, faults, nextReport>>

\* The function queued by safeAskOpenAI starts: the spacing, then the first attempt.
CallStart(k) ==
  /\ chain[k].st = "queued"
  /\ ChainReady(k)
  /\ LET wait == SpacingWait(now)
     IN  IF wait > 0
         THEN /\ chain' = [chain EXCEPT ![k] = [@ EXCEPT !.st = "spacing", !.wakeAt = now + wait]]
              /\ UNCHANGED lastCall
         ELSE Ask(k)
  /\ UNCHANGED others

\* The promise before this call was rejected: the call is rejected with the same
\* error and its function never runs.
CallSkipped(k) ==
  /\ chain[k].st = "queued"
  /\ ChainBroken(k)
  /\ chain' = [chain EXCEPT ![k] = [@ EXCEPT !.st = "rejected", !.err = chain[k - 1].err]]
  /\ UNCHANGED <<lastCall, others>>

\* await delay(wait) or await delay(backoff) is over
CallWake(k) ==
  /\ Macrotask
  /\ chain[k].st \in {"spacing", "backoff"}
  /\ now >= chain[k].wakeAt
  /\ Ask(k)
  /\ UNCHANGED others

\* openai.responses.create returns: resp.output_text ?? the no-text notice
ResponsesOk(k, out) ==
  /\ Macrotask
  /\ chain[k].st = "responses"
  /\ Succeed(k, out)
  /\ UNCHANGED others

\* openai.responses.create throws: the fallback request to chat.completions is sent
ResponsesThrow(k) ==
  /\ Macrotask
  /\ chain[k].st = "responses"
  /\ chain' = [chain EXCEPT ![k] = [@ EXCEPT !.st = "chat"]]
  /\ UNCHANGED <<lastCall, others>>

\* openai.chat.completions.create returns: the content ?? the no-text notice
ChatOk(k, out) ==
  /\ Macrotask
  /\ chain[k].st = "chat"
  /\ Succeed(k, out)
  /\ UNCHANGED others

\* openai.chat.completions.create throws err, which askOpenAI rethrows
ChatThrow(k, err, jitter) ==
  /\ Macrotask
  /\ chain[k].st = "chat"
  /\ Fail(k, err, jitter)
  /\ UNCHANGED others

------------------------------------------------------------------------------
(* Response cache and answerWithSensorAI *)

CACHE_TTL_MS == 120000

\* `${q}|${Math.round(l)}|${Math.round(t)}|${Math.round(h)}`
cacheKey(q, l, t, h) ==
  q \o <<"|", ToString(Round(l)), "|", ToString(Round(t)), "|", ToString(Round(h))>>

\* A cache whose entries never expire
ExpiredNever(e) == FALSE
\* getCache(k): the entry is dropped when it is older than the TTL
Expired(e) == now - e.t > CACHE_TTL_MS
CacheAfterGet(k) == { e \in aiCache : ~(e.k = k /\ Expired(e)) }
\* What getCache(k) returns (NoText for null)
getCache(k) ==
  IF \E e \in aiCache : e.k = k /\ ~Expired(e)
  THEN (CHOOSE e \in aiCache : e.k = k /\ ~Expired(e)).val
  ELSE NoText
\* An orchestrator that takes no value of the cache
TruthyNever(v) == FALSE
\* if (cached) return cached: null and the empty string are both falsy
Truthy(v) == v # NoText /\ v # ""
\* setCache(k, val)
CacheAfterSet(cache, k, val) ==
  { e \in cache : e.k # k } \cup { [k |-> k, t |-> now, val |-> val] }

\* text.replace(/\s+/g, " ").trim() on a sequence of symbols
RECURSIVE Collapse(_)
Collapse(s) ==
  IF Len(s) <= 1 THEN s
  ELSE IF s[1] = " " /\ s[2] = " " THEN Collapse(Tail(s))
  ELSE <<s[1]>> \o Collapse(Tail(s))
RECURSIVE TrimLeft(_)
TrimLeft(s) == IF s # <<>> /\ s[1] = " " THEN TrimLeft(Tail(s)) ELSE s
RECURSIVE TrimRight(_)
TrimRight(s) ==
  IF s # <<>> /\ s[Len(s)] = " " THEN TrimRight(SubSeq(s, 1, Len(s) - 1)) ELSE s
Trim(s) == TrimRight(TrimLeft(s))
Normalize(s) == Trim(Collapse(s))

presetQuestions == { <<"Q1">>, <<"Q2">> }

------------------------------------------------------------------------------
(* Async functions in flight *)

Terminal == {"done", "failed"}

NewTask(kind, pc, token, userId, text) ==
  [kind |-> kind, pc |-> pc, token |-> token, userId |-> userId, text |-> text,
   q |-> <<>>, rd |-> NoReading, createdId |-> 0, call |-> 0, aiVal |-> NoText,
   todo |-> {},
   http |-> 0,           \* the HTTP status answered to the request (0: no response yet)
   batch |-> <<>>,       \* index.ts: the events of the batch not yet taken
   type |-> "",          \* index.ts: event.message.type
   \* history of the task, for the properties
   sent |-> 0,           \* messages handed to the LINE transport (reply or push)
   msgs |-> <<>>,        \* the texts processMessageEvent handed over, in order
   acked |-> FALSE,      \* the please-wait acknowledgment was handed over
   admitted |-> FALSE,   \* the task passed the find-by-token check
   created |-> FALSE,    \* the task created its PendingReply row
   deletes |-> 0,        \* calls of deletePendingReply
   fault |-> FALSE,      \* a collaborator failure was injected into the task
   overlaps |-> {},      \* the tasks of the same token that were in flight when it started
   asked |-> FALSE,      \* answerWithSensorAI was called
   answered |-> FALSE,   \* answerWithSensorAI returned a value
   answeredAt |-> -1,    \* when it did
   prior |-> {}]         \* values the model had returned to answerWithSensorAI, within the
                         \* TTL, for the same question and rounded reading, when it was
                         \* called

\* Values answerWithSensorAI already got from the model and returned for the same
\* question (the same text, so the same normalized question) and the same rounded
\* reading, no longer than the TTL ago.
PriorAnswers(q, rd) ==
  { tasks[j].aiVal : j \in { n \in 1..Len(tasks) :
       /\ tasks[n].answered /\ tasks[n].call # 0
       /\ now - tasks[n].answeredAt <= CACHE_TTL_MS
       /\ tasks[n].q = q
       /\ Round(tasks[n].rd.light) = Round(rd.light)
       /\ Round(tasks[n].rd.temp) = Round(rd.temp)
       /\ Round(tasks[n].rd.humidity) = Round(rd.humidity) } }

\* answerWithSensorAI(q, rd) is called by task i (t, a task of base): on a hit the task
\* goes on at hitPc with the cached value, on a miss safeAskOpenAI queues a call and
\* the task waits.
AnswerCall(base, i, t, q, rd, hitPc) ==
  LET key == cacheKey(q, rd.light, rd.temp, rd.humidity)
      cached == getCache(key)
      u == [t EXCEPT !.q = q, !.rd = rd, !.asked = TRUE, !.prior = PriorAnswers(q, rd)]
  IN  /\ aiCache' = CacheAfterGet(key)
      /\ IF Truthy(cached)
         THEN /\ tasks' = [base EXCEPT ![i] =
                    [u EXCEPT !.pc = hitPc, !.aiVal = cached, !.answered = TRUE,
                              !.answeredAt = now]]
              /\ UNCHANGED chain
         ELSE /\ chain' = Append(chain, NewCall(i, [q |-> q, rd |-> rd]))
              /\ tasks' = [base EXCEPT ![i] = [u EXCEPT !.pc = "awaitAI", !.call = Len(chain) + 1]]

------------------------------------------------------------------------------
(* The webhook and processMessageEvent *)

limiter == <<chain, lastCall>>
config == <<OPENAI_RPM, OPENAI_MAX_RETRIES, OPENAI_API_KEY>>

\* The texts handed to the LINE transport. A text is kept as what it is made of (the
\* kind of message, the question and the answer in it) and its length in characters.
\* message.length > 1000
ReplyLimit == 1000
\* The length of "\n...(ตัดข้อความ)"
MarkerLen == 16
\* The length of a text of the model
LengthOf(v) ==
  CASE v = "" -> 0
    [] v = "<think>x</think>A1" -> 18
    [] v = "LONG" -> 1200
    [] OTHER -> 2
\* The length of a fixed text of processMessageEvent, and of the status summary of
\* the reading 20000 lux, 32 C, 55 %
FixedLen(form) ==
  CASE form = "nodata" -> 28
    [] form = "wait" -> 16
    [] form = "empty" -> 46
    [] form = "status" -> 120
\* The length of a preset question
QuestionLen(q) == IF q = <<"Q1">> THEN 26 ELSE 18
\* cleanAIResponse(text): the think blocks and the tags are removed, the rest trimmed
cleanAIResponse(v) == IF v = "<think>x</think>A1" THEN "A1" ELSE v
\* replyToUser(replyToken, message): the text posted is trimmedMessage
ReplyMessage(form) ==
  LET full == FixedLen(form)
  IN  [via |-> "reply", form |-> form, q |-> <<>>, ai |-> NoText, full |-> full,
       len |-> IF full > ReplyLimit THEN ReplyLimit + MarkerLen ELSE full]
\* const answer = `${normalizedText}?\n- คำตอบ จาก AI : ${cleanAIResponse(finalText)}`,
\* posted to .../push as it is
PushMessage(q, aiText) ==
  LET full == QuestionLen(q) + 19 + LengthOf(cleanAIResponse(aiText))
  IN  [via |-> "push", form |-> "answer", q |-> q, ai |-> cleanAIResponse(aiText),
       full |-> full, len |-> full]

\* A collaborator (the store, the LINE transport) fails on this operation.
Inject == faults < MaxFaults /\ faults' = faults + 1
NoInject == UNCHANGED faults

\* A lookup that finds no row, whatever the store holds.
TokenPendingNever(token) == FALSE

\* The row of PendingReply with this replyToken exists.
TokenPending(token) == \E r \in pending : r.replyToken = token

\* The tasks of this token that have not ended.
InFlight(token) ==
  { j \in 1..Len(tasks) :
      tasks[j].kind = "event" /\ tasks[j].token = token /\ tasks[j].pc \notin Terminal }

\* app.post("/webhook") for one message event: res.sendStatus(200), then
\* processMessageEvent(event) is started and runs up to its first await
\* (prisma.user.findUnique). A task that ends "failed" is a rejection of
\* processMessageEvent, which .catch(console.error) handles.
Webhook(token, userId, text) ==
  /\ Macrotask
  /\ tasks' = Append(tasks,
        [NewTask("event", "findUser", token, userId, Trim(text))
           EXCEPT !.http = 200, !.overlaps = InFlight(token)])
  /\ UNCHANGED <<now, config, limiter, aiCache, lastSensorData, users, pending, nextId,
                 faults, nextReport>>

\* prisma.user.findUnique({ where: { userId } })
FindUser(i) ==
  /\ Macrotask
  /\ tasks[i].kind = "event" /\ tasks[i].pc = "findUser"
  /\ \/ /\ NoInject
        /\ tasks' = [tasks EXCEPT ![i].pc =
              IF tasks[i].userId \in users THEN "findPending" ELSE "createUser"]
     \/ /\ Inject
        /\ tasks' = [tasks EXCEPT ![i] = [@ EXCEPT !.pc = "failed", !.fault = TRUE]]
  /\ UNCHANGED <<now, config, limiter, aiCache, lastSensorData, users, pending, nextId,
                 nextReport>>

\* prisma.user.create({ data: { userId } }): userId is unique
CreateUser(i) ==
  /\ Macrotask
  /\ tasks[i].kind = "event" /\ tasks[i].pc = "createUser"
  /\ \/ /\ NoInject
        /\ IF tasks[i].userId \in users
           THEN /\ tasks' = [tasks EXCEPT ![i].pc = "failed"]
                /\ UNCHANGED users
           ELSE /\ tasks' = [tasks EXCEPT ![i].pc = "findPending"]
                /\ users' = users \cup {tasks[i].userId}
     \/ /\ Inject
        /\ tasks' = [tasks EXCEPT ![i] = [@ EXCEPT !.pc = "failed", !.fault = TRUE]]
        /\ UNCHANGED users
  /\ UNCHANGED <<now, config, limiter, aiCache, lastSensorData, pending, nextId, nextReport>>

\* const exists = await prisma.pendingReply.findUnique(...); if (exists) return;
FindPending(i) ==
  /\ Macrotask
  /\ tasks[i].kind = "event" /\ tasks[i].pc = "findPending"
  /\ \/ /\ NoInject
        /\ tasks' = [tasks EXCEPT ![i] =
              IF TokenPending(tasks[i].token)
              THEN [@ EXCEPT !.pc = "done"]
              ELSE [@ EXCEPT !.pc = "createPending", !.admitted = TRUE]]
     \/ /\ Inject
        /\ tasks' = [tasks EXCEPT ![i] = [@ EXCEPT !.pc = "failed", !.fault = TRUE]]
  /\ UNCHANGED <<now, config, limiter, aiCache, lastSensorData, users, pending, nextId,
                 nextReport>>

\* A classification that asks the model whatever the text is.
ClassifyAlwaysAsking(t) ==
  IF lastSensorData = NoReading
  THEN [t EXCEPT !.pc = "replyNoData"]
  ELSE [t EXCEPT !.rd = lastSensorData, !.q = Normalize(t.text), !.pc = "replyWait"]

\* A classification without the test of the reading.
ClassifyWithoutReadingTest(t) ==
  LET normalizedText == Normalize(t.text)
  IN  [t EXCEPT !.rd = lastSensorData, !.q = normalizedText,
                !.pc = IF normalizedText \notin presetQuestions
                       THEN "replyStatus" ELSE "replyWait"]

\* The synchronous code after the row is created: the classification of the event.
Classify(t) ==
  IF lastSensorData = NoReading
  THEN [t EXCEPT !.pc = "replyNoData"]
  ELSE LET normalizedText == Normalize(t.text)
       IN  [t EXCEPT !.rd = lastSensorData, !.q = normalizedText,
                     !.pc = IF normalizedText \notin presetQuestions
                            THEN "replyStatus" ELSE "replyWait"]

\* A create on a table without the unique index on replyToken
CreatePendingWithoutUniqueness(i) ==
  /\ Macrotask
  /\ tasks[i].kind = "event" /\ tasks[i].pc = "createPending"
  /\ \/ /\ NoInject
        /\ pending' = pending \cup {[id |-> nextId, replyToken |-> tasks[i].token]}
        /\ nextId' = nextId + 1
        /\ tasks' = [tasks EXCEPT ![i] =
              Classify([@ EXCEPT !.created = TRUE, !.createdId = nextId])]
     \/ /\ Inject
        /\ tasks' = [tasks EXCEPT ![i] = [@ EXCEPT !.pc = "failed", !.fault = TRUE]]
        /\ UNCHANGED <<pending, nextId>>
  /\ UNCHANGED <<now, config, limiter, aiCache, lastSensorData, users, nextReport>>

\* A create that carries on with the processing when the row of the token exists
CreatePendingIgnoringConflict(i) ==
  /\ Macrotask
  /\ tasks[i].kind = "event" /\ tasks[i].pc = "createPending"
  /\ \/ /\ NoInject
        /\ IF TokenPending(tasks[i].token)
           THEN /\ tasks' = [tasks EXCEPT ![i] = Classify(@)]
                /\ UNCHANGED <<pending, nextId>>
           ELSE /\ pending' = pending \cup {[id |-> nextId, replyToken |-> tasks[i].token]}
                /\ nextId' = nextId + 1
                /\ tasks' = [tasks EXCEPT ![i] =
                      Classify([@ EXCEPT !.created = TRUE, !.createdId = nextId])]
     \/ /\ Inject
        /\ tasks' = [tasks EXCEPT ![i] = [@ EXCEPT !.pc = "failed", !.fault = TRUE]]
        /\ UNCHANGED <<pending, nextId>>
  /\ UNCHANGED <<now, config, limiter, aiCache, lastSensorData, users, nextReport>>

\* prisma.pendingReply.create(...): replyToken is unique
CreatePending(i) ==
  /\ Macrotask
  /\ tasks[i].kind = "event" /\ tasks[i].pc = "createPending"
  /\ \/ /\ NoInject
        /\ IF TokenPending(tasks[i].token)
           THEN /\ tasks' = [tasks EXCEPT ![i].pc = "failed"]
                /\ UNCHANGED <<pending, nextId>>
           ELSE /\ pending' = pending \cup {[id |-> nextId, replyToken |-> tasks[i].token]}
                /\ nextId' = nextId + 1
                /\ tasks' = [tasks EXCEPT ![i] =
                      Classify([@ EXCEPT !.created = TRUE, !.createdId = nextId])]
     \/ /\ Inject
        /\ tasks' = [tasks EXCEPT ![i] = [@ EXCEPT !.pc = "failed", !.fault = TRUE]]
        /\ UNCHANGED <<pending, nextId>>
  /\ UNCHANGED <<now, config, limiter, aiCache, lastSensorData, users, nextReport>>

\* replyToUser(replyToken, message) of a direct reply or of the empty-answer notice:
\* a failure of the transport is logged inside replyToUser.
Reply(i) ==
  /\ Macrotask
  /\ tasks[i].kind = "event" /\ tasks[i].pc \in {"replyNoData", "replyStatus", "replyEmpty"}
  /\ LET form == CASE tasks[i].pc = "replyNoData" -> "nodata"
                   [] tasks[i].pc = "replyStatus" -> "status"
                   [] tasks[i].pc = "replyEmpty" -> "empty"
         t == [tasks[i] EXCEPT !.pc = "delete", !.sent = @ + 1,
                               !.msgs = Append(@, ReplyMessage(form))]
     IN  \/ NoInject /\ tasks' = [tasks EXCEPT ![i] = t]
         \/ Inject /\ tasks' = [tasks EXCEPT ![i] = [t EXCEPT !.fault = TRUE]]
  /\ UNCHANGED <<now, config, limiter, aiCache, lastSensorData, users, pending, nextId,
                 nextReport>>

\* replyToUser(replyToken, please wait), then answerWithSensorAI(normalizedText, ...)
ReplyWait(i) ==
  /\ Macrotask
  /\ tasks[i].kind = "event" /\ tasks[i].pc = "replyWait"
  /\ LET t == [tasks[i] EXCEPT !.sent = @ + 1, !.acked = TRUE,
                               !.msgs = Append(@, ReplyMessage("wait"))]
     IN  \/ NoInject /\ AnswerCall(tasks, i, t, tasks[i].q, tasks[i].rd, "push")
         \/ Inject /\ AnswerCall(tasks, i, [t EXCEPT !.fault = TRUE],
                                 tasks[i].q, tasks[i].rd, "push")
  /\ UNCHANGED <<now, config, lastCall, lastSensorData, users, pending, nextId, nextReport>>

\* An answerWithSensorAI that answers a failed call with a text of its own and caches
\* it.
AnswerReturnFabricating(i, okPc, emptyPc, failPc) ==
  LET t == tasks[i]
      c == chain[t.call]
      key == cacheKey(t.q, t.rd.light, t.rd.temp, t.rd.humidity)
      out == IF c.st = "resolved" THEN c.out ELSE "FABRICATED"
  IN  /\ t.pc = "awaitAI"
      /\ c.st \in Settled
      /\ aiCache' = CacheAfterSet(aiCache, key, out)
      /\ tasks' = [tasks EXCEPT ![i] =
            [t EXCEPT !.aiVal = out, !.answered = TRUE, !.answeredAt = now,
                      !.pc = IF out = "" THEN emptyPc ELSE okPc]]

\* An answerWithSensorAI that builds the key, after the await, from the reading
\* stored at that time.
AnswerReturnCurrentReading(i, okPc, emptyPc, failPc) ==
  LET t == tasks[i]
      c == chain[t.call]
      key == cacheKey(t.q, lastSensorData.light, lastSensorData.temp,
                      lastSensorData.humidity)
  IN  /\ t.pc = "awaitAI"
      /\ c.st \in Settled
      /\ IF c.st = "resolved"
         THEN /\ aiCache' = CacheAfterSet(aiCache, key, c.out)
              /\ tasks' = [tasks EXCEPT ![i] =
                    [t EXCEPT !.aiVal = c.out, !.answered = TRUE, !.answeredAt = now,
                              !.pc = IF c.out = "" THEN emptyPc ELSE okPc]]
         ELSE /\ UNCHANGED aiCache
              /\ tasks' = [tasks EXCEPT ![i].pc = failPc]

\* The promise of safeAskOpenAI settled and answerWithSensorAI resumes in task i:
\* setCache(key, out); return out, or the rejection is passed to the caller.
\* The caller goes on at okPc (emptyPc on an empty answer), or at failPc.
AnswerReturn(i, okPc, emptyPc, failPc) ==
  LET t == tasks[i]
      c == chain[t.call]
      key == cacheKey(t.q, t.rd.light, t.rd.temp, t.rd.humidity)
  IN  /\ t.pc = "awaitAI"
      /\ c.st \in Settled
      /\ IF c.st = "resolved"
         THEN /\ aiCache' = CacheAfterSet(aiCache, key, c.out)
              /\ tasks' = [tasks EXCEPT ![i] =
                    [t EXCEPT !.aiVal = c.out, !.answered = TRUE, !.answeredAt = now,
                              !.pc = IF c.out = "" THEN emptyPc ELSE okPc]]
         ELSE /\ UNCHANGED aiCache
              /\ tasks' = [tasks EXCEPT ![i].pc = failPc]

\* An event processing that takes the answer as delivered once it has it
EventAnswerSkippingPush(i) ==
  /\ tasks[i].kind = "event"
  /\ AnswerReturn(i, "delete", "replyEmpty", "failed")
  /\ UNCHANGED <<now, config, limiter, lastSensorData, users, pending, nextId, faults,
                 nextReport>>

\* const aiText = await answerWithSensorAI(...) in processMessageEvent
EventAnswer(i) ==
  /\ tasks[i].kind = "event"
  /\ AnswerReturn(i, "push", "replyEmpty", "failed")
  /\ UNCHANGED <<now, config, limiter, lastSensorData, users, pending, nextId, faults,
                 nextReport>>

\* axios.post(.../push, answer): a failure rejects processMessageEvent
Push(i) ==
  /\ Macrotask
  /\ tasks[i].kind = "event" /\ tasks[i].pc = "push"
  /\ LET t == [tasks[i] EXCEPT !.sent = @ + 1,
                               !.msgs = Append(@, PushMessage(tasks[i].q, tasks[i].aiVal))]
     IN  \/ NoInject /\ tasks' = [tasks EXCEPT ![i] = [t EXCEPT !.pc = "delete"]]
         \/ Inject /\ tasks' = [tasks EXCEPT ![i] = [t EXCEPT !.pc = "failed", !.fault = TRUE]]
  /\ UNCHANGED <<now, config, limiter, aiCache, lastSensorData, users, pending, nextId,
                 nextReport>>

\* deletePendingReply(created.id): a failure of the delete is logged
DeletePending(i) ==
  /\ Macrotask
  /\ tasks[i].kind = "event" /\ tasks[i].pc = "delete"
  /\ \/ /\ NoInject
        /\ pending' = { r \in pending : r.id # tasks[i].createdId }
        /\ tasks' = [tasks EXCEPT ![i] = [@ EXCEPT !.pc = "done", !.deletes = @ + 1]]
     \/ /\ Inject
        /\ UNCHANGED pending
        /\ tasks' = [tasks EXCEPT ![i] =
              [@ EXCEPT !.pc = "done", !.deletes = @ + 1, !.fault = TRUE]]
  /\ UNCHANGED <<now, config, limiter, aiCache, lastSensorData, users, nextId, nextReport>>

------------------------------------------------------------------------------
(* /sensor-data, /ask-ai, the auto-report, the clock *)

\* app.post("/sensor-data") with the three fields
SensorData(rd) ==
  /\ Macrotask
  /\ lastSensorData' = rd
  /\ UNCHANGED <<now, config, limiter, aiCache, users, pending, nextId, tasks, faults,
                 nextReport>>

\* A test of the light field alone
PresentLightOnly(body) == body.light # Missing

\* The three fields are in the body: v !== undefined for each
Present(body) == body.light # Missing /\ body.temp # Missing /\ body.humidity # Missing

\* app.post("/sensor-data") with any body: the reading is replaced, or the request is
\* answered with 400. The request and its response are kept as a task that has ended.
PostSensorData(body) ==
  /\ Macrotask
  /\ lastSensorData' = IF Present(body) THEN body ELSE lastSensorData
  /\ tasks' = Append(tasks,
        [NewTask("sensor", "done", "", "", <<>>)
           EXCEPT !.rd = body, !.http = IF Present(body) THEN 200 ELSE 400])
  /\ UNCHANGED <<now, config, limiter, aiCache, users, pending, nextId, faults, nextReport>>

\* Number(v)
ToNumber(v) ==
  IF IsNumber(v) THEN v
  ELSE IF IsText(v) THEN 0 - (v + 10)
  ELSE IF v = Null THEN 0
  ELSE NaN

\* app.post("/sensor-data") of index.ts: the fields are stored as Number(field)
TsPostSensorData(body) ==
  /\ Macrotask
  /\ lastSensorData' =
        IF Present(body)
        THEN [light |-> ToNumber(body.light), temp |-> ToNumber(body.temp),
              humidity |-> ToNumber(body.humidity)]
        ELSE lastSensorData
  /\ tasks' = Append(tasks,
        [NewTask("tsSensor", "done", "", "", <<>>)
           EXCEPT !.rd = body, !.http = IF Present(body) THEN 200 ELSE 400])
  /\ UNCHANGED <<now, config, limiter, aiCache, users, pending, nextId, faults, nextReport>>

\* JSON.stringify of a field of the reading: NaN is written as null
ToJson(v) == IF v = NaN THEN Null ELSE v

\* if (lastSensorData) res.json(lastSensorData); else res.status(404).json(...)
\* The request and its response (the status, the body in rd) are kept as a task that
\* has ended.
LatestResponse(kind) ==
  IF lastSensorData # NoReading
  THEN [NewTask(kind, "done", "", "", <<>>)
          EXCEPT !.http = 200,
                 !.rd = [light |-> ToJson(lastSensorData.light),
                         temp |-> ToJson(lastSensorData.temp),
                         humidity |-> ToJson(lastSensorData.humidity)]]
  ELSE [NewTask(kind, "done", "", "", <<>>) EXCEPT !.http = 404]

\* app.get("/latest")
Latest ==
  /\ Macrotask
  /\ tasks' = Append(tasks, LatestResponse("latest"))
  /\ UNCHANGED <<now, config, limiter, aiCache, lastSensorData, users, pending, nextId,
                 faults, nextReport>>

\* app.get("/latest") of index.ts
TsLatest ==
  /\ Macrotask
  /\ tasks' = Append(tasks, LatestResponse("tsLatest"))
  /\ UNCHANGED <<now, config, limiter, aiCache, lastSensorData, users, pending, nextId,
                 faults, nextReport>>

\* app.post("/ask-ai") with a question and, in body, a reading or none
AskAi(question, body) ==
  /\ Macrotask
  /\ body # NoReading \/ lastSensorData # NoReading
  /\ LET rd == IF body # NoReading THEN body ELSE lastSensorData
         i == Len(tasks) + 1
         t == NewTask("askai", "start", "", "", question)
     IN  AnswerCall(Append(tasks, t), i, t, question, rd, "done")
  /\ UNCHANGED <<now, config, lastCall, lastSensorData, users, pending, nextId, faults,
                 nextReport>>

\* const ai = await answerWithSensorAI(...) in /ask-ai: the answer, or the fallback
\* summary when the call was rejected
AskAiAnswer(i) ==
  /\ tasks[i].kind = "askai"
  /\ AnswerReturn(i, "done", "done", "done")
  /\ UNCHANGED <<now, config, limiter, lastSensorData, users, pending, nextId, faults,
                 nextReport>>

\* Math.max(5 * 60 * 1000, minGapMs)
ReportEveryMs == Max(5 * 60 * 1000, minGapMs)

\* The setInterval callback of the auto-report up to its first await
AutoReport ==
  /\ Macrotask
  /\ nextReport # -1
  /\ now >= nextReport
  /\ nextReport' = nextReport + ReportEveryMs
  /\ IF lastSensorData = NoReading
     THEN UNCHANGED <<tasks, aiCache, chain>>
     ELSE /\ LET t == NewTask("report", "start", "", "", ReportQuestion)
             IN  AnswerCall(Append(tasks, t), Len(tasks) + 1, t, ReportQuestion,
                            lastSensorData, "findMany")
  /\ UNCHANGED <<now, config, lastCall, lastSensorData, users, pending, nextId, faults>>

\* await answerWithSensorAI(...) in the auto-report: a rejection is caught and logged
ReportAnswer(i) ==
  /\ tasks[i].kind = "report"
  /\ AnswerReturn(i, "findMany", "findMany", "done")
  /\ UNCHANGED <<now, config, limiter, lastSensorData, users, pending, nextId, faults,
                 nextReport>>

\* const users = await prisma.user.findMany()
ReportFindMany(i) ==
  /\ Macrotask
  /\ tasks[i].kind = "report" /\ tasks[i].pc = "findMany"
  /\ \/ /\ NoInject
        /\ tasks' = [tasks EXCEPT ![i] =
              [@ EXCEPT !.todo = users, !.pc = IF users = {} THEN "done" ELSE "pushAll"]]
     \/ /\ Inject
        /\ tasks' = [tasks EXCEPT ![i] = [@ EXCEPT !.pc = "done", !.fault = TRUE]]
  /\ UNCHANGED <<now, config, limiter, aiCache, lastSensorData, users, pending, nextId,
                 nextReport>>

\* for (const u of users) await axios.post(.../push): a failure ends the loop
ReportPush(i) ==
  /\ Macrotask
  /\ tasks[i].kind = "report" /\ tasks[i].pc = "pushAll"
  /\ \/ /\ NoInject
        /\ \E u \in tasks[i].todo :
             tasks' = [tasks EXCEPT ![i] =
               [@ EXCEPT !.todo = @ \ {u}, !.sent = @ + 1,
                         !.pc = IF tasks[i].todo = {u} THEN "done" ELSE "pushAll"]]
     \/ /\ Inject
        /\ tasks' = [tasks EXCEPT ![i] = [@ EXCEPT !.pc = "done", !.fault = TRUE]]
  /\ UNCHANGED <<now, config, limiter, aiCache, lastSensorData, users, pending, nextId,
                 nextReport>>

\* The moments the timers that are set are due.
Timers ==
  { chain[k].wakeAt : k \in { n \in 1..Len(chain) : chain[n].st \in {"spacing", "backoff"} } }
    \cup (IF nextReport # -1 THEN {nextReport} ELSE {})
DueNext == { d \in Timers : d > now }

\* Time passes, to the moment t.
Tick(t) ==
  /\ Macrotask
  /\ t > now
  /\ t <= MaxNow
  /\ now' = t
  /\ UNCHANGED <<config, limiter, aiCache, lastSensorData, users, pending, nextId, tasks,
                 faults, nextReport>>

------------------------------------------------------------------------------
(* The webhook of src/backend/src/index.ts: the handler processes the events of the  *)
(* batch one after the other, each step awaited, and answers at the end. A task of   *)
(* kind "tsWebhook" is one run of the handler; it ends "done", or "unhandled" when   *)
(* the promise of the handler is rejected (Express 4 attaches no handler to it and   *)
(* sends no response).                                                               *)

\* The top of the for loop: the next event of the batch is taken, up to its first
\* await; after the last event, res.sendStatus(200).
TsNextEvent(t) ==
  IF t.batch = <<>>
  THEN [t EXCEPT !.pc = "done", !.http = 200]
  ELSE LET event == Head(t.batch)
       IN  [t EXCEPT !.token = event.token, !.userId = event.userId,
                     !.type = event.type, !.text = Trim(event.text),
                     !.batch = Tail(t.batch), !.createdId = 0, !.pc = "findUser"]

\* An awaited call throws: the handler's promise is rejected.
TsThrow(t) == [t EXCEPT !.pc = "unhandled"]

\* app.post("/webhook") of index.ts with a batch of events
TsWebhook(batch) ==
  /\ Macrotask
  /\ tasks' = Append(tasks,
        TsNextEvent([NewTask("tsWebhook", "start", "", "", <<>>) EXCEPT !.batch = batch]))
  /\ UNCHANGED <<now, config, limiter, aiCache, lastSensorData, users, pending, nextId,
                 faults, nextReport>>

\* prisma.user.findUnique({ where: { userId: uid } })
TsFindUser(i) ==
  /\ Macrotask
  /\ tasks[i].kind = "tsWebhook" /\ tasks[i].pc = "findUser"
  /\ \/ /\ NoInject
        /\ tasks' = [tasks EXCEPT ![i].pc =
              IF tasks[i].userId \in users THEN "findPending" ELSE "createUser"]
     \/ /\ Inject
        /\ tasks' = [tasks EXCEPT ![i] = TsThrow([@ EXCEPT !.fault = TRUE])]
  /\ UNCHANGED <<now, config, limiter, aiCache, lastSensorData, users, pending, nextId,
                 nextReport>>

\* prisma.user.create({ data: { userId: uid } })
TsCreateUser(i) ==
  /\ Macrotask
  /\ tasks[i].kind = "tsWebhook" /\ tasks[i].pc = "createUser"
  /\ \/ /\ NoInject
        /\ IF tasks[i].userId \in users
           THEN /\ tasks' = [tasks EXCEPT ![i] = TsThrow(@)]
                /\ UNCHANGED users
           ELSE /\ tasks' = [tasks EXCEPT ![i].pc = "findPending"]
                /\ users' = users \cup {tasks[i].userId}
     \/ /\ Inject
        /\ tasks' = [tasks EXCEPT ![i] = TsThrow([@ EXCEPT !.fault = TRUE])]
        /\ UNCHANGED users
  /\ UNCHANGED <<now, config, limiter, aiCache, lastSensorData, pending, nextId, nextReport>>

\* prisma.pendingReply.findUnique(...); if (exists) continue;
TsFindPending(i) ==
  /\ Macrotask
  /\ tasks[i].kind = "tsWebhook" /\ tasks[i].pc = "findPending"
  /\ \/ /\ NoInject
        /\ tasks' = [tasks EXCEPT ![i] =
              IF TokenPending(tasks[i].token)
              THEN TsNextEvent(@)
              ELSE [@ EXCEPT !.pc = "createPending", !.admitted = TRUE]]
     \/ /\ Inject
        /\ tasks' = [tasks EXCEPT ![i] = TsThrow([@ EXCEPT !.fault = TRUE])]
  /\ UNCHANGED <<now, config, limiter, aiCache, lastSensorData, users, pending, nextId,
                 nextReport>>

\* The synchronous code after the row is created, up to the next await: the no-data
\* reply, or the summary, after the answer of the model when the message is a text.
\* askOpenAI returns its notice at once when there is no API key.
TsClassify(t) ==
  IF lastSensorData = NoReading
  THEN [t EXCEPT !.pc = "reply"]
  ELSE IF t.type = "text"
       THEN IF OPENAI_API_KEY
            THEN [t EXCEPT !.rd = lastSensorData, !.q = t.text, !.asked = TRUE, !.pc = "ask"]
            ELSE [t EXCEPT !.rd = lastSensorData, !.q = t.text, !.asked = TRUE,
                           !.aiVal = NoKeyNotice, !.answered = TRUE, !.pc = "reply"]
       ELSE [t EXCEPT !.rd = lastSensorData, !.pc = "reply"]

\* prisma.pendingReply.create(...): replyToken is unique
TsCreatePending(i) ==
  /\ Macrotask
  /\ tasks[i].kind = "tsWebhook" /\ tasks[i].pc = "createPending"
  /\ \/ /\ NoInject
        /\ IF TokenPending(tasks[i].token)
           THEN /\ tasks' = [tasks EXCEPT ![i] = TsThrow(@)]
                /\ UNCHANGED <<pending, nextId>>
           ELSE /\ pending' = pending \cup {[id |-> nextId, replyToken |-> tasks[i].token]}
                /\ nextId' = nextId + 1
                /\ tasks' = [tasks EXCEPT ![i] =
                      TsClassify([@ EXCEPT !.created = TRUE, !.createdId = nextId])]
     \/ /\ Inject
        /\ tasks' = [tasks EXCEPT ![i] = TsThrow([@ EXCEPT !.fault = TRUE])]
        /\ UNCHANGED <<pending, nextId>>
  /\ UNCHANGED <<now, config, limiter, aiCache, lastSensorData, users, nextReport>>

\* An answer of askOpenAI after which the row is deleted before the reply is sent.
TsAskOkDeletingFirst(i, out) ==
  /\ Macrotask
  /\ tasks[i].kind = "tsWebhook" /\ tasks[i].pc = "ask"
  /\ tasks' = [tasks EXCEPT ![i] = [@ EXCEPT !.aiVal = out, !.answered = TRUE, !.pc = "delete"]]
  /\ UNCHANGED <<now, config, limiter, aiCache, lastSensorData, users, pending, nextId,
                 faults, nextReport>>

\* openai.responses.create returns in askOpenAI of index.ts
TsAskOk(i, out) ==
  /\ Macrotask
  /\ tasks[i].kind = "tsWebhook" /\ tasks[i].pc = "ask"
  /\ tasks' = [tasks EXCEPT ![i] = [@ EXCEPT !.aiVal = out, !.answered = TRUE, !.pc = "reply"]]
  /\ UNCHANGED <<now, config, limiter, aiCache, lastSensorData, users, pending, nextId,
                 faults, nextReport>>

\* openai.responses.create throws: nothing catches it in the handler
TsAskThrow(i) ==
  /\ Macrotask
  /\ tasks[i].kind = "tsWebhook" /\ tasks[i].pc = "ask"
  /\ tasks' = [tasks EXCEPT ![i] = TsThrow(@)]
  /\ UNCHANGED <<now, config, limiter, aiCache, lastSensorData, users, pending, nextId,
                 faults, nextReport>>

\* replyToUserAndDelete: axios.post(.../reply); a failure is logged and the delete is
\* skipped
TsReply(i) ==
  /\ Macrotask
  /\ tasks[i].kind = "tsWebhook" /\ tasks[i].pc = "reply"
  /\ \/ NoInject /\ tasks' = [tasks EXCEPT ![i] = [@ EXCEPT !.pc = "delete", !.sent = @ + 1]]
     \/ Inject /\ tasks' = [tasks EXCEPT ![i] =
                     TsNextEvent([@ EXCEPT !.sent = @ + 1, !.fault = TRUE])]
  /\ UNCHANGED <<now, config, limiter, aiCache, lastSensorData, users, pending, nextId,
                 nextReport>>

\* replyToUserAndDelete: prisma.pendingReply.delete({ where: { id } }); a failure is
\* logged
TsDelete(i) ==
  /\ Macrotask
  /\ tasks[i].kind = "tsWebhook" /\ tasks[i].pc = "delete"
  /\ \/ /\ NoInject
        /\ pending' = { r \in pending : r.id # tasks[i].createdId }
        /\ tasks' = [tasks EXCEPT ![i] = TsNextEvent([@ EXCEPT !.deletes = @ + 1])]
     \/ /\ Inject
        /\ UNCHANGED pending
        /\ tasks' = [tasks EXCEPT ![i] =
              TsNextEvent([@ EXCEPT !.deletes = @ + 1, !.fault = TRUE])]
  /\ UNCHANGED <<now, config, limiter, aiCache, lastSensorData, users, nextId, nextReport>>

------------------------------------------------------------------------------
(* Specifications *)

InitState ==
  /\ now = StartMs
  /\ chain = <<>>
  /\ lastCall = 0
  /\ aiCache = {}
  /\ lastSensorData = NoReading
  /\ users = {}
  /\ pending = {}
  /\ nextId = 1
  /\ tasks = <<>>

\* The indices of the calls and of the tasks.
Calls == 1..Len(chain)
Tasks == 1..Len(tasks)

(* The limiter under /ask-ai requests: every configuration, every answer of the      *)
(* completion service, bursts and spaced requests.                                   *)
InitLimiter ==
  /\ InitState
  /\ OPENAI_RPM \in RpmValues
  /\ OPENAI_MAX_RETRIES = 1
  /\ OPENAI_API_KEY \in BOOLEAN
  /\ nextReport = -1
  /\ faults = 0

NextLimiter ==
  \/ /\ Len(tasks) < MaxLimiterTasks
     /\ \E r \in LimiterRequests : AskAi(r.question, r.body)
  \/ \E i \in Tasks : AskAiAnswer(i)
  \/ \E k \in Calls : CallStart(k)
  \/ \E k \in Calls : CallSkipped(k)
  \/ \E k \in Calls : CallWake(k)
  \/ \E k \in Calls, out \in {"A1", ""} : ResponsesOk(k, out)
  \/ \E k \in Calls : ResponsesThrow(k)
  \/ \E k \in Calls, out \in {"A1", ""} : ChatOk(k, out)
  \/ \E k \in Calls, err \in EventErrors : ChatThrow(k, err, 0)
  \/ \E t \in DueNext \cup {now + TickMs} : Tick(t)

SpecLimiter == InitLimiter /\ [][NextLimiter]_vars

(* The event processing: at most MaxEventTasks deliveries over a run.                *)
InitEvents ==
  /\ InitState
  /\ OPENAI_RPM = 2
  /\ OPENAI_MAX_RETRIES = 1
  /\ OPENAI_API_KEY = TRUE
  /\ nextReport = -1
  /\ faults = 0

NextEvents ==
  \/ /\ Len(tasks) < MaxEventTasks
     /\ \E e \in Deliveries : Webhook(e.token, e.userId, e.text)
  \/ \E i \in Tasks : FindUser(i)
  \/ \E i \in Tasks : CreateUser(i)
  \/ \E i \in Tasks : FindPending(i)
  \/ \E i \in Tasks : CreatePending(i)
  \/ \E i \in Tasks : Reply(i)
  \/ \E i \in Tasks : ReplyWait(i)
  \/ \E i \in Tasks : EventAnswer(i)
  \/ \E i \in Tasks : Push(i)
  \/ \E i \in Tasks : DeletePending(i)
  \/ SensorData(R1)
  \/ \E k \in Calls : CallStart(k)
  \/ \E k \in Calls : CallSkipped(k)
  \/ \E k \in Calls : CallWake(k)
  \/ \E k \in Calls, out \in {"A1", ""} : ResponsesOk(k, out)
  \/ \E k \in Calls : ResponsesThrow(k)
  \/ \E k \in Calls : ChatOk(k, "A1")
  \/ \E k \in Calls : ChatThrow(k, ServerError, 0)
  \/ \E t \in DueNext : Tick(t)

(* The retry loop of one call: every number of retries up to the default, every      *)
(* error, hinted or not, both ends of the jitter. There is no call before it.        *)
InitRetry ==
  /\ InitState
  /\ OPENAI_RPM = 2
  /\ OPENAI_MAX_RETRIES \in 0..MaxRetries
  /\ OPENAI_API_KEY = TRUE
  /\ nextReport = -1
  /\ faults = 0

NextRetry ==
  \/ /\ tasks = <<>>
     /\ \E r \in SystemRequests : r.body # NoReading /\ AskAi(r.question, r.body)
  \/ \E i \in Tasks : AskAiAnswer(i)
  \/ \E k \in Calls : CallStart(k)
  \/ \E k \in Calls : CallWake(k)
  \/ \E k \in Calls, out \in ModelTexts \cup {NoTextNotice} : ResponsesOk(k, out)
  \/ \E k \in Calls : ResponsesThrow(k)
  \/ \E k \in Calls, out \in ModelTexts \cup {NoTextNotice} : ChatOk(k, out)
  \/ \E k \in Calls, err \in RetryErrors, jitter \in JitterValues : ChatThrow(k, err, jitter)
  \/ \E t \in DueNext : Tick(t)

SpecRetry == InitRetry /\ [][NextRetry]_vars

SpecEvents == InitEvents /\ [][NextEvents]_vars

(* The event processing of every kind of message. The store and the LINE transport  *)
(* do not fail in these runs.                                                        *)
InitTexts ==
  /\ InitState
  /\ OPENAI_RPM = 2
  /\ OPENAI_MAX_RETRIES = 1
  /\ OPENAI_API_KEY = TRUE
  /\ nextReport = -1
  /\ faults = MaxFaults

NextTexts ==
  \/ /\ Len(tasks) < MaxTextTasks
     /\ \E e \in TextDeliveries : Webhook(e.token, e.userId, e.text)
  \/ \E i \in Tasks : FindUser(i)
  \/ \E i \in Tasks : CreateUser(i)
  \/ \E i \in Tasks : FindPending(i)
  \/ \E i \in Tasks : CreatePending(i)
  \/ \E i \in Tasks : Reply(i)
  \/ \E i \in Tasks : ReplyWait(i)
  \/ \E i \in Tasks : EventAnswer(i)
  \/ \E i \in Tasks : Push(i)
  \/ \E i \in Tasks : DeletePending(i)
  \/ SensorData(R1)
  \/ \E k \in Calls : CallStart(k)
  \/ \E k \in Calls : CallSkipped(k)
  \/ \E k \in Calls : CallWake(k)
  \/ \E k \in Calls, out \in {"A1", ""} : ResponsesOk(k, out)
  \/ \E k \in Calls : ResponsesThrow(k)
  \/ \E k \in Calls : ChatOk(k, "A1")
  \/ \E k \in Calls : ChatThrow(k, ServerError, 0)
  \/ \E t \in DueNext : Tick(t)

SpecTexts == InitTexts /\ [][NextTexts]_vars

(* The messages of the event processing: every kind of message, every kind of text  *)
(* of the model. The store and the LINE transport do not fail in these runs.         *)
InitMessages ==
  /\ InitState
  /\ OPENAI_RPM = 2
  /\ OPENAI_MAX_RETRIES = 1
  /\ OPENAI_API_KEY = TRUE
  /\ nextReport = -1
  /\ faults = MaxFaults

NextMessages ==
  \/ /\ Len(tasks) < MaxMessageTasks
     /\ \E e \in TextDeliveries : Webhook(e.token, e.userId, e.text)
  \/ \E i \in Tasks : FindUser(i)
  \/ \E i \in Tasks : CreateUser(i)
  \/ \E i \in Tasks : FindPending(i)
  \/ \E i \in Tasks : CreatePending(i)
  \/ \E i \in Tasks : Reply(i)
  \/ \E i \in Tasks : ReplyWait(i)
  \/ \E i \in Tasks : EventAnswer(i)
  \/ \E i \in Tasks : Push(i)
  \/ \E i \in Tasks : DeletePending(i)
  \/ SensorData(R1)
  \/ \E k \in Calls : CallStart(k)
  \/ \E k \in Calls : CallWake(k)
  \/ \E k \in Calls, out \in MessageTexts : ResponsesOk(k, out)
  \/ \E k \in Calls : ResponsesThrow(k)
  \/ \E k \in Calls, out \in MessageTexts : ChatOk(k, out)
  \/ \E k \in Calls : ChatThrow(k, Throttled, 0)
  \/ \E t \in DueNext : Tick(t)

SpecMessages == InitMessages /\ [][NextMessages]_vars

(* The clearing of the rows of PendingReply in either server (a run is of one of    *)
(* the two): the store and the LINE transport fail, the completion service answers  *)
(* with a text or with the empty text. The batches of index.ts are of one event.    *)
InitClear ==
  /\ InitState
  /\ OPENAI_RPM = 2
  /\ OPENAI_MAX_RETRIES = 1
  /\ OPENAI_API_KEY = TRUE
  /\ nextReport = -1
  /\ faults = 0

NextClear ==
  \/ /\ Len(tasks) < MaxClearTasks
     /\ \A i \in Tasks : tasks[i].kind = "event"
     /\ \E e \in ClearDeliveries : Webhook(e.token, e.userId, e.text)
  \/ /\ Len(tasks) < MaxClearTasks
     /\ \A i \in Tasks : tasks[i].kind = "tsWebhook"
     /\ \E batch \in TsBatches : Len(batch) = 1 /\ TsWebhook(batch)
  \/ \E i \in Tasks : FindUser(i)
  \/ \E i \in Tasks : CreateUser(i)
  \/ \E i \in Tasks : FindPending(i)
  \/ \E i \in Tasks : CreatePending(i)
  \/ \E i \in Tasks : Reply(i)
  \/ \E i \in Tasks : ReplyWait(i)
  \/ \E i \in Tasks : EventAnswer(i)
  \/ \E i \in Tasks : Push(i)
  \/ \E i \in Tasks : DeletePending(i)
  \/ \E i \in Tasks : TsFindUser(i)
  \/ \E i \in Tasks : TsCreateUser(i)
  \/ \E i \in Tasks : TsFindPending(i)
  \/ \E i \in Tasks : TsCreatePending(i)
  \/ \E i \in Tasks : TsAskOk(i, "A1")
  \/ \E i \in Tasks : TsReply(i)
  \/ \E i \in Tasks : TsDelete(i)
  \/ SensorData(R1)
  \/ \E k \in Calls : CallStart(k)
  \/ \E k \in Calls : \E out \in {"A1", ""} : ResponsesOk(k, out)
  \/ \E k \in Calls : CallWake(k)
  \/ \E t \in DueNext : Tick(t)

SpecClear == InitClear /\ [][NextClear]_vars

(* Events and /ask-ai requests while the sensor posts readings that differ in every  *)
(* field. Nothing fails in these runs.                                               *)
InitSnapshot ==
  /\ InitState
  /\ OPENAI_RPM = 2
  /\ OPENAI_MAX_RETRIES = 1
  /\ OPENAI_API_KEY = TRUE
  /\ nextReport = -1
  /\ faults = MaxFaults

NextSnapshot ==
  \/ /\ Len(tasks) < MaxSnapshotTasks
     /\ \/ \E e \in SystemDeliveries : Webhook(e.token, e.userId, e.text)
        \/ \E r \in SystemRequests : AskAi(r.question, r.body)
  \/ \E i \in Tasks : FindUser(i)
  \/ \E i \in Tasks : CreateUser(i)
  \/ \E i \in Tasks : FindPending(i)
  \/ \E i \in Tasks : CreatePending(i)
  \/ \E i \in Tasks : Reply(i)
  \/ \E i \in Tasks : ReplyWait(i)
  \/ \E i \in Tasks : EventAnswer(i)
  \/ \E i \in Tasks : Push(i)
  \/ \E i \in Tasks : DeletePending(i)
  \/ \E i \in Tasks : AskAiAnswer(i)
  \/ \E rd \in {R1, R3} : SensorData(rd)
  \/ \E k \in Calls : CallStart(k)
  \/ \E k \in Calls : CallWake(k)
  \/ \E k \in Calls : ResponsesOk(k, "A1")
  \/ \E t \in DueNext : Tick(t)

SpecSnapshot == InitSnapshot /\ [][NextSnapshot]_vars

(* The queue of safeAskOpenAI when no step waits for ever: a function whose turn has  *)
(* come runs, a timer that is due fires, time passes, and a request to the           *)
(* completion service returns or throws.                                             *)
InitLive ==
  /\ InitState
  /\ OPENAI_RPM = 2
  /\ OPENAI_MAX_RETRIES = 1
  /\ OPENAI_API_KEY = TRUE
  /\ nextReport = -1
  /\ faults = 0

NextLive ==
  \/ /\ Len(tasks) < MaxLiveTasks
     /\ \E r \in LimiterRequests : AskAi(r.question, r.body)
  \/ \E i \in Tasks : AskAiAnswer(i)
  \/ \E k \in Calls : CallStart(k)
  \/ \E k \in Calls : CallSkipped(k)
  \/ \E k \in Calls : CallWake(k)
  \/ \E k \in Calls : ResponsesOk(k, "A1")
  \/ \E k \in Calls : ResponsesThrow(k)
  \/ \E k \in Calls : ChatOk(k, "A1")
  \/ \E k \in Calls, err \in EventErrors : ChatThrow(k, err, 0)
  \/ \E t \in DueNext : Tick(t)

LiveFairness ==
  /\ WF_vars(\E i \in Tasks : AskAiAnswer(i))
  /\ WF_vars(\E k \in Calls : CallStart(k))
  /\ WF_vars(\E k \in Calls : CallSkipped(k))
  /\ WF_vars(\E k \in Calls : CallWake(k))
  /\ WF_vars(\E k \in Calls : ResponsesOk(k, "A1") \/ ResponsesThrow(k))
  /\ WF_vars(\E k \in Calls : ChatOk(k, "A1") \/ \E err \in EventErrors : ChatThrow(k, err, 0))
  /\ WF_vars(\E t \in DueNext : Tick(t))

SpecLive == InitLive /\ [][NextLive]_vars /\ LiveFairness

(* The server of index.ts: webhook batches and sensor posts.                         *)
InitTs ==
  /\ InitState
  /\ OPENAI_RPM = 2
  /\ OPENAI_MAX_RETRIES = 1
  /\ OPENAI_API_KEY = TRUE
  /\ nextReport = -1
  /\ faults = 0

NextTs ==
  \/ /\ Len(tasks) < MaxTsRequests
     /\ \/ \E batch \in TsBatches : TsWebhook(batch)
        \/ TsPostSensorData(R1)
  \/ \E i \in Tasks : TsFindUser(i)
  \/ \E i \in Tasks : TsCreateUser(i)
  \/ \E i \in Tasks : TsFindPending(i)
  \/ \E i \in Tasks : TsCreatePending(i)
  \/ \E i \in Tasks, out \in {"A1", ""} : TsAskOk(i, out)
  \/ \E i \in Tasks : TsAskThrow(i)
  \/ \E i \in Tasks : TsReply(i)
  \/ \E i \in Tasks : TsDelete(i)

SpecTs == InitTs /\ [][NextTs]_vars

(* The backoff of one call to a completion service that throttles every request,    *)
(* with and without a hint, with both ends of the jitter.                            *)
InitBackoff ==
  /\ InitState
  /\ OPENAI_RPM = 2
  /\ OPENAI_MAX_RETRIES = MaxBackoffRetries
  /\ OPENAI_API_KEY = TRUE
  /\ nextReport = -1
  /\ faults = 0

NextBackoff ==
  \/ /\ tasks = <<>>
     /\ AskAi(<<"Q1">>, R1)
  \/ \E i \in Tasks : AskAiAnswer(i)
  \/ \E k \in Calls : CallStart(k)
  \/ \E k \in Calls : CallWake(k)
  \/ \E k \in Calls : ResponsesThrow(k)
  \/ \E k \in Calls, err \in BackoffErrors, jitter \in JitterValues : ChatThrow(k, err, jitter)
  \/ \E t \in DueNext : Tick(t)

SpecBackoff == InitBackoff /\ [][NextBackoff]_vars

(* The cache under /ask-ai requests to a completion service that answers: requests  *)
(* in bursts, spaced, and further apart than the TTL.                                *)
InitCache ==
  /\ InitState
  /\ OPENAI_RPM = 2
  /\ OPENAI_MAX_RETRIES = 1
  /\ OPENAI_API_KEY = TRUE
  /\ nextReport = -1
  /\ faults = 0

NextCache ==
  \/ /\ Len(tasks) < MaxCacheTasks
     /\ \E r \in CacheRequests : AskAi(r.question, r.body)
  \/ \E i \in Tasks : AskAiAnswer(i)
  \/ \E k \in Calls : CallStart(k)
  \/ \E k \in Calls : CallWake(k)
  \/ \E k \in Calls : ResponsesOk(k, "A1")
  \/ \E t \in DueNext \cup {now + TickMs} : Tick(t)

SpecCache == InitCache /\ [][NextCache]_vars

(* The sensor ingest and the reading query of both servers: every kind of body.      *)
InitIngest ==
  /\ InitState
  /\ OPENAI_RPM = 2
  /\ OPENAI_MAX_RETRIES = 1
  /\ OPENAI_API_KEY = TRUE
  /\ nextReport = -1
  /\ faults = 0

NextIngest ==
  \/ Len(tasks) < MaxIngests /\ \E body \in SensorBodies : PostSensorData(body)
  \/ Len(tasks) < MaxIngests /\ \E body \in SensorBodies : TsPostSensorData(body)
  \/ Len(tasks) < MaxIngests /\ Latest
  \/ Len(tasks) < MaxIngests /\ TsLatest

SpecIngest == InitIngest /\ [][NextIngest]_vars

(* The whole program: events, /ask-ai requests and the auto-report share the chain.  *)
(* The store and the LINE transport do not fail in these runs, and the model's       *)
(* answers are not empty.                                                            *)
Init ==
  /\ InitState
  /\ OPENAI_RPM = 2
  /\ OPENAI_MAX_RETRIES = 1
  /\ OPENAI_API_KEY = TRUE
  /\ nextReport = StartMs + ReportEveryMs
  /\ faults = MaxFaults

Next ==
  \/ /\ Len(tasks) < MaxSystemTasks
     /\ \/ \E e \in SystemDeliveries : Webhook(e.token, e.userId, e.text)
        \/ \E r \in SystemRequests : AskAi(r.question, r.body)
  \/ Len(tasks) < MaxSystemTasks /\ AutoReport
  \/ \E i \in Tasks : FindUser(i)
  \/ \E i \in Tasks : CreateUser(i)
  \/ \E i \in Tasks : FindPending(i)
  \/ \E i \in Tasks : CreatePending(i)
  \/ \E i \in Tasks : Reply(i)
  \/ \E i \in Tasks : ReplyWait(i)
  \/ \E i \in Tasks : EventAnswer(i)
  \/ \E i \in Tasks : Push(i)
  \/ \E i \in Tasks : DeletePending(i)
  \/ \E i \in Tasks : AskAiAnswer(i)
  \/ \E i \in Tasks : ReportAnswer(i)
  \/ \E i \in Tasks : ReportFindMany(i)
  \/ \E i \in Tasks : ReportPush(i)
  \/ SensorData(R1)
  \/ \E k \in Calls : CallStart(k)
  \/ \E k \in Calls : CallSkipped(k)
  \/ \E k \in Calls : CallWake(k)
  \/ \E k \in Calls : ResponsesOk(k, "A1")
  \/ \E k \in Calls : ResponsesThrow(k)
  \/ \E k \in Calls : ChatOk(k, "A1")
  \/ \E k \in Calls, err \in EventErrors : ChatThrow(k, err, 0)
  \/ \E t \in DueNext : Tick(t)

Spec == Init /\ [][Next]_vars

------------------------------------------------------------------------------
(* Properties of the rate limiter and of the retry loop *)

\* C1: after a queued call has failed, every call submitted afterwards is still
\* executed: a call is never rejected without having invoked the completion
\* transport itself.
C1_LaterCallsStillExecuted ==
  \A k \in Calls : chain[k].st = "rejected" => chain[k].asks > 0

\* C4: any two calls start their completion request at least minGapMs apart,
\* whatever the submission pattern.
C4_MinGapBetweenCallStarts ==
  \A i, j \in Calls :
     (i < j /\ chain[i].startAt # -1 /\ chain[j].startAt # -1)
        => chain[j].startAt - chain[i].startAt >= minGapMs

\* Two calls have started exactly minGapMs apart: the later one was held back by the
\* spacing delay.
C4_Witness ==
  \E i, j \in Calls :
     /\ i < j
     /\ chain[i].startAt # -1 /\ chain[j].startAt # -1
     /\ chain[j].startAt - chain[i].startAt = minGapMs

\* C8: calls start in submission order, and a call does not start (nor is it
\* settled) before the call submitted before it has settled, retries and backoff
\* delays included.
C8_CallsStartInOrderAfterSettle ==
  \A i, j \in Calls :
     i < j =>
       /\ chain[j].st # "queued" => chain[i].st \in Settled
       /\ (chain[i].startAt # -1 /\ chain[j].startAt # -1)
             => chain[i].startAt <= chain[j].startAt

\* A call has started after the call before it was throttled, backed off and
\* succeeded.
C8_Witness ==
  \E k \in Calls :
     /\ k > 1
     /\ chain[k].asks > 0
     /\ chain[k - 1].st = "resolved" /\ chain[k - 1].throttled > 0

\* C9: events, /ask-ai requests and the auto-report all wait for a call of the one
\* chain, and at most one call of the chain is executing (in its spacing delay, in a
\* request or in a backoff).
C9_AtMostOneCallExecuting ==
  /\ Cardinality({ k \in Calls : chain[k].st \in Running }) <= 1
  /\ \A i \in Tasks :
        tasks[i].pc = "awaitAI" =>
           /\ tasks[i].call \in Calls
           /\ chain[tasks[i].call].owner = i

\* An event and the auto-report wait for the model at once: the call of one is backing
\* off and the call of the other is queued behind it.
C9_Witness ==
  \E i, j \in Tasks :
     /\ tasks[i].kind = "event" /\ tasks[i].pc = "awaitAI"
     /\ tasks[j].kind = "report" /\ tasks[j].pc = "awaitAI"
     /\ {chain[tasks[i].call].st, chain[tasks[j].call].st} = {"backoff", "queued"}

\* C10: a call whose completion request is throttled on its first k attempts,
\* k <= OPENAI_MAX_RETRIES, and then succeeds returns the value of the successful
\* attempt after exactly k + 1 attempts, and that value is what the caller gets; a
\* call gives up on a throttling error only after more than OPENAI_MAX_RETRIES of them.
C10_SuccessAfterThrottles ==
  /\ \A k \in Calls :
        /\ chain[k].st = "resolved" =>
              /\ chain[k].throttled <= OPENAI_MAX_RETRIES
              /\ chain[k].asks = chain[k].throttled + 1
              /\ chain[k].out # NoText
        /\ (chain[k].st = "rejected" /\ chain[k].asks > 0 /\ chain[k].err.status = 429)
              => chain[k].throttled > OPENAI_MAX_RETRIES
  /\ \A i \in Tasks :
        (tasks[i].answered /\ tasks[i].call # 0)
           => /\ chain[tasks[i].call].st = "resolved"
              /\ tasks[i].aiVal = chain[tasks[i].call].out

\* Two throttling errors, then a success at the third attempt.
C10_Witness ==
  \E i \in Tasks :
     /\ tasks[i].answered /\ tasks[i].call # 0
     /\ chain[tasks[i].call].throttled = 2
     /\ chain[tasks[i].call].asks = 3
     /\ tasks[i].aiVal = "A1"

\* C11: an error of askOpenAI that is no throttling error rejects the call at once:
\* the call never backs off after it, and a call whose first attempt threw it is
\* rejected with it after exactly one attempt.
C11_OtherErrorRejectsAtOnce ==
  \A k \in Calls :
     /\ chain[k].st = "backoff" => chain[k].err.status = 429
     /\ chain[k].err.status \notin {0, 429} =>
           /\ chain[k].st = "rejected"
           /\ chain[k].asks = chain[k].throttled + 1
           /\ chain[k].wakeAt = -1
           /\ chain[k].out = NoText

\* A call is rejected with a status 500 error after one attempt, and its /ask-ai
\* request has ended.
C11_Witness ==
  \E i \in Tasks :
     /\ tasks[i].call # 0 /\ tasks[i].pc = "done"
     /\ chain[tasks[i].call].st = "rejected"
     /\ chain[tasks[i].call].err.status = 500
     /\ chain[tasks[i].call].asks = 1

\* C12: the attempt counter counts the throttling errors retried and never exceeds
\* OPENAI_MAX_RETRIES; a call rejected with a throttling error has made exactly
\* OPENAI_MAX_RETRIES retries (OPENAI_MAX_RETRIES + 1 attempts), holds that error and
\* no value.
C12_ThrottledUntilRetriesExhausted ==
  \A k \in Calls :
     /\ chain[k].attempt <= OPENAI_MAX_RETRIES
     /\ chain[k].st # "rejected" => chain[k].attempt = chain[k].throttled
     /\ (chain[k].st = "rejected" /\ chain[k].asks > 0 /\ chain[k].err.status = 429) =>
           /\ chain[k].attempt = OPENAI_MAX_RETRIES
           /\ chain[k].asks = OPENAI_MAX_RETRIES + 1
           /\ chain[k].throttled = OPENAI_MAX_RETRIES + 1
           /\ chain[k].out = NoText

\* With OPENAI_MAX_RETRIES = 3 a call is rejected with a throttling error at its fourth
\* attempt.
C12_Witness ==
  \E k \in Calls :
     /\ OPENAI_MAX_RETRIES = 3
     /\ chain[k].st = "rejected" /\ chain[k].err.status = 429
     /\ chain[k].asks = 4 /\ chain[k].attempt = 3

\* C27: the delay before a retry is the hint of the throttling error when it has one:
\* the value of retry-after-ms taken as milliseconds, else the value of retry-after
\* taken as seconds; without a hint it is the exponential delay.
C27_HintNormalizedToMilliseconds ==
  [][ \A k \in Calls :
        (chain[k].st # "backoff" /\ chain'[k].st = "backoff")
        => LET err == chain'[k].err
               delay == chain'[k].wakeAt - now
           IN  IF err.retryAfterMs # NoHeader
               THEN delay = err.retryAfterMs.n
               ELSE IF err.retryAfter # NoHeader
                    THEN delay = err.retryAfter.n * 1000
                    ELSE \E j \in 0..799 :
                           delay = Min(30000, Pow2(chain'[k].attempt) * 1000 + j) ]_vars

\* C28: the delay before the retry numbered n, n in 1..OPENAI_MAX_RETRIES, after a
\* throttling error without a hint is min(30000, 2^n * 1000 + j) for a j in 0..799:
\* at most 30000, and no more than 799 below the delay a retry numbered lower could
\* have had.
C28_ExponentialBackoffCapped ==
  [][ \A k \in Calls :
        ( /\ chain[k].st # "backoff" /\ chain'[k].st = "backoff"
          /\ chain'[k].err.retryAfterMs = NoHeader /\ chain'[k].err.retryAfter = NoHeader )
        => LET n == chain'[k].attempt
               delay == chain'[k].wakeAt - now
               low == IF Pow2(n) * 1000 < 30000 THEN Pow2(n) * 1000 ELSE 30000
               high == IF Pow2(n) * 1000 + 799 < 30000 THEN Pow2(n) * 1000 + 799 ELSE 30000
           IN  /\ n = chain[k].attempt + 1
               /\ n \in 1..OPENAI_MAX_RETRIES
               /\ delay >= low /\ delay <= high /\ delay <= 30000
               /\ \A m \in 1..(n - 1) :
                     delay >= (IF Pow2(m) * 1000 + 799 < 30000
                               THEN Pow2(m) * 1000 + 799 ELSE 30000) - 799 ]_vars

\* The call backs off for the fifth time after throttling errors without a hint, for
\* the 30000 ms of the cap.
C28_Witness ==
  \E k \in Calls :
     /\ chain[k].st = "backoff" /\ chain[k].attempt = 5
     /\ chain[k].err = Throttled
     /\ chain[k].wakeAt = now + 30000
     /\ chain[k].throttled = 5

------------------------------------------------------------------------------
(* Properties of the cache *)

\* C13: when the call of safeAskOpenAI is rejected, the step in which
\* answerWithSensorAI resumes leaves the cache as it was, and the caller gets no
\* value: the rejection is passed on.
C13_FailurePropagatedCacheUntouched ==
  [][ \A i \in Tasks :
        ( /\ tasks[i].pc = "awaitAI"
          /\ tasks'[i].pc # "awaitAI"
          /\ chain[tasks[i].call].st = "rejected" )
        => /\ aiCache' = aiCache
           /\ ~tasks'[i].answered
           /\ tasks'[i].aiVal = NoText ]_vars

\* An /ask-ai request has ended after its call was rejected at its own attempt; it
\* holds no answer and the cache holds no entry for its key.
C13_Witness ==
  \E i \in Tasks :
     /\ tasks[i].call # 0 /\ tasks[i].pc = "done"
     /\ chain[tasks[i].call].st = "rejected" /\ chain[tasks[i].call].asks > 0
     /\ ~tasks[i].answered
     /\ \A e \in aiCache :
           e.k # cacheKey(tasks[i].q, tasks[i].rd.light, tasks[i].rd.temp, tasks[i].rd.humidity)

C23_LazyExpiryOnRead ==
  [][ /\ \A e \in aiCache :
           /\ getCache(e.k) = (IF now - e.t <= CACHE_TTL_MS THEN e.val ELSE NoText)
           /\ CacheAfterGet(e.k) =
                 aiCache \ (IF now - e.t > CACHE_TTL_MS THEN {e} ELSE {})
      /\ \A i \in 1..Len(tasks') :
           (tasks'[i].asked /\ (i > Len(tasks) \/ ~tasks[i].asked))
           => LET key == cacheKey(tasks'[i].q, tasks'[i].rd.light, tasks'[i].rd.temp,
                                  tasks'[i].rd.humidity)
                  stale == { e \in aiCache : e.k = key /\ now - e.t > CACHE_TTL_MS }
              IN  /\ aiCache' = aiCache \ stale
                  /\ stale # {} => (tasks'[i].pc = "awaitAI" /\ ~tasks'[i].answered)
      /\ \A e \in aiCache :
           (\A e2 \in aiCache' : e2.k # e.k)
           => /\ now - e.t > CACHE_TTL_MS
              /\ \E i \in 1..Len(tasks') :
                    /\ tasks'[i].asked /\ (i > Len(tasks) \/ ~tasks[i].asked)
                    /\ e.k = cacheKey(tasks'[i].q, tasks'[i].rd.light, tasks'[i].rd.temp,
                                      tasks'[i].rd.humidity) ]_vars

\* The entry of an answer, older than the TTL, was read by a later request for the
\* same question and reading: the request was not served from the cache and the
\* entry is gone.
C23_Witness ==
  \E i, j \in Tasks :
     /\ j < i
     /\ tasks[j].answered /\ tasks[j].call # 0 /\ tasks[j].aiVal = "A1"
     /\ now - tasks[j].answeredAt > CACHE_TTL_MS
     /\ tasks[i].asked /\ tasks[i].q = tasks[j].q /\ tasks[i].rd = tasks[j].rd
     /\ tasks[i].pc = "awaitAI"
     /\ Len(tasks) = 2
     /\ aiCache = {}

\* C29: two calls of answerWithSensorAI have the same fingerprint exactly when their
\* questions are equal once white space is collapsed and trimmed and their light,
\* temperature and humidity round to the same integers.
C29_FingerprintOfNormalizedQuestion ==
  \A i, j \in Tasks :
     (tasks[i].asked /\ tasks[j].asked)
     => ( cacheKey(tasks[i].q, tasks[i].rd.light, tasks[i].rd.temp, tasks[i].rd.humidity)
            = cacheKey(tasks[j].q, tasks[j].rd.light, tasks[j].rd.temp, tasks[j].rd.humidity)
          <=> /\ Normalize(tasks[i].q) = Normalize(tasks[j].q)
              /\ Round(tasks[i].rd.light) = Round(tasks[j].rd.light)
              /\ Round(tasks[i].rd.temp) = Round(tasks[j].rd.temp)
              /\ Round(tasks[i].rd.humidity) = Round(tasks[j].rd.humidity) )

\* C32: while a call of safeAskOpenAI is not settled, the chain holds no second call
\* for the same fingerprint: of two calls of answerWithSensorAI with one fingerprint
\* that overlap, at most one reaches the completion service.
C32_SingleFlightPerFingerprint ==
  \A k1, k2 \in Calls :
     ( /\ k1 < k2
       /\ chain[k1].st \notin Settled
       /\ cacheKey(chain[k1].prompt.q, chain[k1].prompt.rd.light,
                   chain[k1].prompt.rd.temp, chain[k1].prompt.rd.humidity)
            = cacheKey(chain[k2].prompt.q, chain[k2].prompt.rd.light,
                       chain[k2].prompt.rd.temp, chain[k2].prompt.rd.humidity) )
     => FALSE

\* C33: two consecutive requests to the completion service are at least minGapMs
\* apart. The first request of a call is sent at startAt; a call whose fallback
\* request to chat.completions is in flight, or that has invoked askOpenAI again
\* after a backoff, has sent a later request, no later than now.
C33_MinGapBetweenRequests ==
  \A k \in Calls :
     (chain[k].startAt # -1 /\ (chain[k].st = "chat" \/ chain[k].asks >= 2))
     => now - chain[k].startAt >= minGapMs

\* C37: every call submitted to safeAskOpenAI is settled in the end, resolved or
\* rejected, whatever the calls before it in the chain do.
C37_EveryCallSettles ==
  \A k \in 1..MaxLiveTasks :
     (k \in Calls) ~> (k \in Calls /\ chain[k].st \in Settled)

\* The third call of the chain is settled after the first was throttled and retried
\* and the second was rejected.
C37_Witness ==
  /\ Len(chain) >= 3
  /\ chain[1].throttled >= 1 /\ chain[1].st = "resolved"
  /\ chain[2].st = "rejected" /\ chain[2].asks >= 1
  /\ chain[3].st \in Settled

\* C14: every value in the cache is a text the model generated: neither the notice
\* of the missing API key nor the notice of a response without text is in the cache.
C14_OnlyModelTextCached ==
  \A e \in aiCache : e.val \notin {NoKeyNotice, NoTextNotice}

\* C5: when answerWithSensorAI has returned a value for a question and a reading, a
\* call made within the TTL with the same question and a reading that rounds to the
\* same integers returns that value and makes no call to the model.
C5_SecondCallServedFromCache ==
  \A i \in Tasks :
     (tasks[i].asked /\ tasks[i].prior # {}) =>
        /\ tasks[i].call = 0
        /\ tasks[i].answered => tasks[i].aiVal \in tasks[i].prior

------------------------------------------------------------------------------
(* Properties of the event processing *)

\* C15: answerWithSensorAI is never called without a reading, neither by an event nor
\* by the auto-report nor by /ask-ai; an event admitted while there is no reading,
\* a recognized question included, gets the no-data reply only, and its row is
\* deleted at its end (it is gone unless the store failed).
C15_NoOrchestratorWithoutReading ==
  /\ \A k \in Calls : chain[k].prompt.rd # NoReading
  /\ \A i \in Tasks :
        /\ tasks[i].asked => tasks[i].rd # NoReading
        /\ (tasks[i].kind = "event" /\ tasks[i].created /\ tasks[i].rd = NoReading) =>
              /\ tasks[i].pc \in {"replyNoData", "delete", "done"}
              /\ ~tasks[i].asked /\ tasks[i].call = 0 /\ ~tasks[i].acked
              /\ tasks[i].pc = "done" =>
                    /\ tasks[i].sent = 1
                    /\ tasks[i].deletes = 1
                    /\ ~tasks[i].fault => \A r \in pending : r.id # tasks[i].createdId

\* An event of a recognized question, admitted while there was no reading, has ended
\* with one reply and its row deleted.
C15_Witness ==
  \E i \in Tasks :
     /\ tasks[i].kind = "event" /\ tasks[i].created /\ tasks[i].rd = NoReading
     /\ Normalize(tasks[i].text) \in presetQuestions
     /\ tasks[i].pc = "done" /\ tasks[i].sent = 1 /\ tasks[i].deletes = 1

\* C16: an event classified with a reading whose message is no text message, or whose
\* text is not one recognized question with white space around it, gets one direct
\* status reply; answerWithSensorAI is not called for it and no call of the chain is
\* its own.
C16_DirectSummaryWithoutModelCall ==
  \A i \in Tasks :
     ( /\ tasks[i].kind = "event" /\ tasks[i].created
       /\ tasks[i].rd # NoReading
       /\ SelectSeq(tasks[i].text, LAMBDA c : c # " ") \notin presetQuestions )
     => /\ tasks[i].pc \in {"replyStatus", "delete", "done"}
        /\ tasks[i].sent = (IF tasks[i].pc = "replyStatus" THEN 0 ELSE 1)
        /\ ~tasks[i].asked /\ ~tasks[i].acked /\ tasks[i].call = 0
        /\ \A k \in Calls : chain[k].owner # i

\* A message that is no text message and a text that is no recognized question have
\* both been answered with one reply, with a reading present and no call made.
C16_Witness ==
  \E i, j \in Tasks :
     /\ tasks[i].kind = "event" /\ tasks[j].kind = "event"
     /\ tasks[i].text = <<>> /\ tasks[j].text = <<"Q1", " ", " ", "x">>
     /\ tasks[i].rd # NoReading /\ tasks[j].rd # NoReading
     /\ tasks[i].pc = "done" /\ tasks[j].pc = "done"
     /\ tasks[i].sent = 1 /\ tasks[j].sent = 1
     /\ chain = <<>>

\* C17: every webhook handler has answered 200 before it processes an event: a
\* request to /webhook whose processing is under way, or has ended in any way, has
\* its 200 already.
C17_AcknowledgedBeforeProcessing ==
  \A i \in Tasks :
     tasks[i].kind \in {"event", "tsWebhook"} => tasks[i].http = 200

\* C18: whichever collaborator fails, a request to /webhook whose processing has ended
\* was answered 200, and no promise of a handler was rejected with nothing to catch it.
C18_FailuresLeaveWebhookAcknowledged ==
  \A i \in Tasks :
     (tasks[i].kind \in {"event", "tsWebhook"} /\ tasks[i].pc \in {"done", "failed", "unhandled"})
        => (tasks[i].http = 200 /\ tasks[i].pc # "unhandled")

\* C38: a run of the webhook handler of index.ts that has ended, an event of its
\* batch having thrown or not, has taken every event of the batch.
C38_BatchEventsIsolated ==
  \A i \in Tasks :
     (tasks[i].kind = "tsWebhook" /\ tasks[i].pc \in {"done", "unhandled"})
        => tasks[i].batch = <<>>

\* C19: a task whose prisma.pendingReply.create violated the uniqueness of replyToken
\* has ended there: it sent no reply, made no call of the model and deleted no row;
\* its webhook was answered; the row stays until the task that created it deletes it,
\* and that task ends as it would have alone.
C19_LosingCreateAbortsQuietly ==
  \A i \in Tasks :
     ( /\ tasks[i].kind = "event"
       /\ tasks[i].admitted /\ ~tasks[i].created /\ ~tasks[i].fault
       /\ tasks[i].pc # "createPending" )
     => /\ tasks[i].pc = "failed"
        /\ tasks[i].http = 200
        /\ tasks[i].sent = 0 /\ tasks[i].deletes = 0
        /\ ~tasks[i].asked /\ tasks[i].call = 0
        /\ \A j \in Tasks :
              ( /\ tasks[j].kind = "event" /\ tasks[j].token = tasks[i].token
                /\ tasks[j].created )
              => /\ tasks[j].deletes = 0 => TokenPending(tasks[j].token)
                 /\ tasks[j].pc = "done" => (tasks[j].sent >= 1 /\ tasks[j].deletes = 1)

C19_Witness ==
  \E i, j \in Tasks :
     /\ i # j
     /\ tasks[i].kind = "event" /\ tasks[j].kind = "event"
     /\ tasks[i].token = tasks[j].token
     /\ tasks[i].admitted /\ ~tasks[i].created /\ ~tasks[i].fault
     /\ tasks[i].pc = "failed"
     /\ tasks[j].created /\ tasks[j].pc = "done"
     /\ tasks[j].sent >= 1 /\ tasks[j].deletes = 1

\* C24: an event with a recognized question and a reading has handed over the
\* please-wait acknowledgment, by reply, before answerWithSensorAI is called. Once
\* answerWithSensorAI has returned a text that is not empty, the event hands over
\* one message more, by push: the question, "?", and the cleaned text; its row is
\* deleted after that message was handed over, and not before.
C24_AckThenAnswerThenClear ==
  \A i \in Tasks :
     (tasks[i].kind = "event" /\ tasks[i].asked)
     => LET t == tasks[i]
            row == \E r \in pending : r.id = t.createdId
            final == [via |-> "push", form |-> "answer", q |-> Normalize(t.text),
                      ai |-> IF t.aiVal = "<think>x</think>A1" THEN "A1" ELSE t.aiVal,
                      full |-> t.msgs[2].full, len |-> t.msgs[2].len]
        IN  /\ t.acked /\ Len(t.msgs) >= 1
            /\ t.msgs[1].via = "reply" /\ t.msgs[1].form = "wait"
            /\ Normalize(t.text) \in presetQuestions /\ t.rd # NoReading
            /\ ~t.answered => (Len(t.msgs) = 1 /\ t.deletes = 0 /\ row)
            /\ (t.answered /\ t.aiVal # "")
               => /\ t.pc \in {"push", "delete", "done"}
                  /\ t.pc = "push" => (Len(t.msgs) = 1 /\ t.deletes = 0 /\ row)
                  /\ t.pc = "delete" => (Len(t.msgs) = 2 /\ t.msgs[2] = final
                                            /\ t.deletes = 0 /\ row)
                  /\ t.pc = "done" => (Len(t.msgs) = 2 /\ t.msgs[2] = final
                                          /\ t.deletes = 1 /\ ~row)

\* The model answered with a think block before its text: the event has handed over
\* the acknowledgment, then the question with the cleaned text, and has deleted its
\* row.
C24_Witness ==
  \E i \in Tasks :
     /\ tasks[i].kind = "event" /\ tasks[i].pc = "done"
     /\ tasks[i].aiVal = "<think>x</think>A1"
     /\ Len(tasks[i].msgs) = 2
     /\ tasks[i].msgs[1].form = "wait"
     /\ tasks[i].msgs[2].via = "push" /\ tasks[i].msgs[2].ai = "A1"
     /\ tasks[i].deletes = 1 /\ pending = {}

\* C30: every text handed to the LINE transport, by reply or by push, is the message
\* when the message has at most 1000 characters, and else its first 1000 characters
\* and the marker: no text handed over is longer than that.
C30_TextsTruncatedAtLimit ==
  \A i \in Tasks :
     \A n \in 1..Len(tasks[i].msgs) :
        LET m == tasks[i].msgs[n]
        IN  /\ m.full <= 1000 => m.len = m.full
            /\ m.full > 1000 => m.len = 1000 + 16
            /\ m.len <= 1000 + 16

\* C34: an event that was delivered and has ended while an earlier event of another
\* token was still being processed (no other delivery carrying either token, no
\* call of the model rejected) was admitted and has handed a message for its sender
\* to the LINE transport, also when both events are of one userId.
C34_ConcurrentEventsBothAnswered ==
  \A i, j \in Tasks :
     ( /\ j < i
       /\ tasks[i].kind = "event" /\ tasks[j].kind = "event"
       /\ tasks[i].token # tasks[j].token
       /\ \A n \in Tasks \ {i, j} : tasks[n].token \notin {tasks[i].token, tasks[j].token}
       /\ tasks[j].pc \notin Terminal
       /\ tasks[i].pc \in Terminal
       /\ tasks[i].call # 0 => chain[tasks[i].call].st # "rejected" )
     => tasks[i].admitted /\ tasks[i].sent >= 1

\* C35: of the messages an event hands to the LINE transport, at most one goes by
\* reply, with the replyToken of the event; every further one goes by push.
C35_ReplyTokenUsedOnce ==
  \A i \in Tasks :
     tasks[i].kind = "event"
     => Cardinality({ n \in 1..Len(tasks[i].msgs) : tasks[i].msgs[n].via = "reply" }) <= 1

\* C36: the reading of an event or of an /ask-ai request is one whole reading, as it
\* was posted by the sensor or sent in the body, never a mix of two; the prompt of
\* its call holds that reading and the question of the request; and every entry of
\* the cache is the answer to a prompt whose question and reading have the
\* fingerprint of the entry.
C36_OneReadingPerRequest ==
  /\ \A i \in Tasks :
        /\ tasks[i].rd \in {NoReading, R1, R2, R3}
        /\ tasks[i].pc \in {"replyStatus", "replyWait"} => tasks[i].rd \in {R1, R3}
        /\ tasks[i].asked
           => /\ tasks[i].rd # NoReading
              /\ tasks[i].call # 0
                 => chain[tasks[i].call].prompt = [q |-> tasks[i].q, rd |-> tasks[i].rd]
  /\ \A e \in aiCache :
        \E k \in Calls :
           /\ chain[k].st = "resolved" /\ chain[k].out = e.val
           /\ e.k = cacheKey(chain[k].prompt.q, chain[k].prompt.rd.light,
                             chain[k].prompt.rd.temp, chain[k].prompt.rd.humidity)

\* The sensor posted another reading while the call of an event was waiting for its
\* turn; the answer was then cached under the fingerprint of the reading of the
\* event.
C36_Witness ==
  \E i \in Tasks :
     /\ tasks[i].kind = "event" /\ tasks[i].answered /\ tasks[i].call # 0
     /\ tasks[i].rd = R1 /\ lastSensorData = R3
     /\ chain[tasks[i].call].startAt > StartMs
     /\ aiCache # {}
     /\ \A e \in aiCache : e.k = cacheKey(tasks[i].q, R1.light, R1.temp, R1.humidity)

(* Properties of the clearing of the rows *)

\* C25: a row of PendingReply is removed only by the task that created it, at its
\* delete step, after the last message of the event was handed to the LINE transport:
\* in processMessageEvent the one reply of a direct branch, or the acknowledgment and
\* then the answer or the empty-answer notice, the event ending with the delete; in
\* replyToUserAndDelete the reply of the event. A task that has ended hands over no
\* message.
C25_DeletedAfterLastMessage ==
  [][ /\ \A r \in pending \ pending' :
            \E i \in Tasks :
               /\ tasks[i].createdId = r.id /\ tasks[i].pc = "delete"
               /\ tasks[i].sent > tasks[i].deletes
               /\ tasks[i].kind = "event"
                  => /\ tasks'[i].pc = "done"
                     /\ Len(tasks[i].msgs) = (IF tasks[i].acked THEN 2 ELSE 1)
                     /\ tasks[i].msgs[Len(tasks[i].msgs)].form
                           \in {"nodata", "status", "empty", "answer"}
               /\ tasks[i].kind = "tsWebhook"
                  => tasks'[i].pc \notin {"reply", "delete"}
      /\ \A i \in Tasks :
            tasks[i].pc \in Terminal => tasks'[i].sent = tasks[i].sent
    ]_vars

\* An event that was acknowledged, got its answer by push and then deleted its row,
\* nothing having failed.
C25_Witness ==
  \E i \in Tasks :
     /\ tasks[i].kind = "event" /\ tasks[i].pc = "done" /\ ~tasks[i].fault
     /\ tasks[i].acked /\ Len(tasks[i].msgs) = 2 /\ tasks[i].msgs[2].via = "push"
     /\ tasks[i].created /\ tasks[i].deletes = 1
     /\ \A r \in pending : r.id # tasks[i].createdId

C31_OneRowPerToken ==
  \A r1, r2 \in pending : r1.replyToken = r2.replyToken => r1 = r2

\* Two events of one token both passed the find-by-token check before either created
\* its row; one created the row and the create of the other was refused.
C31_Witness ==
  \E i, j \in Tasks :
     /\ i # j
     /\ tasks[i].kind = "event" /\ tasks[j].kind = "event"
     /\ tasks[i].token = tasks[j].token
     /\ tasks[i].admitted /\ tasks[j].admitted
     /\ tasks[i].created /\ \E r \in pending : r.id = tasks[i].createdId
     /\ ~tasks[j].created /\ ~tasks[j].fault /\ tasks[j].pc = "failed"

(* Properties of the sensor ingest *)

C21_LatestReturnsLastAcceptedReading ==
  \A i \in Tasks :
     tasks[i].kind \in {"latest", "tsLatest"}
     => LET post == IF tasks[i].kind = "latest" THEN "sensor" ELSE "tsSensor"
            accepted == { j \in 1..(i - 1) : tasks[j].kind = post /\ tasks[j].http = 200 }
            other == { j \in 1..(i - 1) : tasks[j].kind \in {"sensor", "tsSensor"}
                                            /\ tasks[j].kind # post }
        IN  other = {}
            => IF accepted = {}
               THEN tasks[i].http = 404
               ELSE LET last == CHOOSE j \in accepted : \A n \in accepted : n <= j
                    IN  /\ tasks[i].http = 200
                        /\ \A f \in {"light", "temp", "humidity"} :
                              \/ tasks[i].rd[f] = tasks[last].rd[f]
                              \/ /\ tasks[last].rd[f] = TextOf(320)
                                 /\ tasks[i].rd[f] = 320
                              \/ /\ tasks[last].rd[f] = Null
                                 /\ tasks[i].rd[f] = 0

(* Further properties of the event processing *)

\* C2: of two tasks of the same token in flight at once, once both have ended (no
\* collaborator having failed), exactly one has delivered a reply and exactly one has
\* created a PendingReply row, which it deleted.
C2_OneReplyOneRecordPerToken ==
  \A i, j \in Tasks :
     ( /\ i < j
       /\ tasks[i].kind = "event" /\ tasks[j].kind = "event"
       /\ tasks[i].token = tasks[j].token
       /\ i \in tasks[j].overlaps
       /\ tasks[i].pc \in Terminal /\ tasks[j].pc \in Terminal
       /\ faults = 0
       /\ \A k \in Calls : chain[k].st # "rejected" )
     => /\ Cardinality({ n \in {i, j} : tasks[n].sent > 0 }) = 1
        /\ Cardinality({ n \in {i, j} : tasks[n].created }) = 1
        /\ \A n \in {i, j} : tasks[n].created => tasks[n].deletes = 1

\* C3: of a delivery and a re-delivery of its token after the first processing has
\* ended (no collaborator having failed), at most one is admitted past the dedup check.
C3_AtMostOneAdmissionPerToken ==
  \A i, j \in Tasks :
     ( /\ i < j
       /\ tasks[i].kind = "event" /\ tasks[j].kind = "event"
       /\ tasks[i].token = tasks[j].token
       /\ i \notin tasks[j].overlaps
       /\ faults = 0 )
     => ~(tasks[i].admitted /\ tasks[j].admitted)

\* C6: an admitted event that has ended has called deletePendingReply for its row
\* exactly once, whichever branch it took.
C6_RecordClearedOnceOnEveryBranch ==
  \A i \in Tasks :
     (tasks[i].kind = "event" /\ tasks[i].created /\ tasks[i].pc \in Terminal)
        => tasks[i].deletes = 1

\* C7: an event of a recognized question that has ended after its call of the model
\* settled has handed the user more than the please-wait acknowledgment: the answer,
\* or a failure notice.
C7_FailureNoticeAfterAck ==
  \A i \in Tasks :
     ( /\ tasks[i].kind = "event" /\ tasks[i].acked
       /\ tasks[i].pc \in Terminal
       /\ ~tasks[i].fault
       /\ tasks[i].call # 0 )
     => tasks[i].sent >= 2

====
